---- MODULE Spec2Model ----
(***************************************************************************)
(* Verification model of the Dynamic Schema & Authorization Data Engine    *)
(* (backend/app/services).                                                 *)
(*                                                                         *)
(* Specification Spec: the schema catalog (collections, aliases, SchemaOp  *)
(* ledger), the physical tables, the advisory lock and the request         *)
(* handlers create_collection, rename_collection, add_field and the data   *)
(* read path, run by concurrent database sessions.                         *)
(*                                                                         *)
(* Specification SpecPolicy: the policy table of one collection and        *)
(* check_permission_for_principal applied to principals, actions, records. *)
(*                                                                         *)
(* Specification SpecFields: the fields of the _users collection, its      *)
(* table columns and the field handlers of schema_evolution (rename, soft  *)
(* delete, hard delete, restore, type change), add_field and               *)
(* create_relation_field, on SQLite and on PostgreSQL.                     *)
(*                                                                         *)
(* Specification SpecViews: one view over the _users collection made,      *)
(* updated, deleted and executed; the record routes and list_fields with   *)
(* their hidden-field filter.  SpecViewVersions: the view and its          *)
(* ViewVersion rows under create, update and delete alone.                 *)
(*                                                                         *)
(* Specification SpecRoles: the roles of one project under create_role,    *)
(* update_role, delete_role and initialize_default_roles, each split into  *)
(* its reads and its commit and run by concurrent database sessions.       *)
(*                                                                         *)
(* Specification SpecConditions: one condition tree evaluated for one      *)
(* principal and record.  SpecRoleGate: policies with allowed_roles, role  *)
(* assignment and removal, and permission checks.  SpecRecords: the record *)
(* routes create, list (query-string filters, count) and get under         *)
(* policies that are created and deleted.  SpecSystemCollection: the       *)
(* requests of Spec on a project whose only collection is _users.          *)
(***************************************************************************)
EXTENDS Integers, Sequences, FiniteSets, TLC

(***************************************************************************)
(* Bounds of the model.                                                    *)
(***************************************************************************)
MaxCollections == 2     \* collection ids are 1..MaxCollections
MaxRequests == 3        \* schema-changing requests started in one run
MaxNow == 30            \* the clock (in days) stops here

(***************************************************************************)
(* Program constants.                                                      *)
(***************************************************************************)
ALIAS_GRACE_PERIOD_DAYS == 30

\* One Tick of the clock: a whole grace period, so that every alias is seen
\* both before and at its expires_at.
ClockStep == ALIAS_GRACE_PERIOD_DAYS

\* Candidate identifiers a tenant may send.  "select" is a reserved word,
\* "Orders" violates SLUG_PATTERN, "_users" is the reserved collection name.
Names == {"a", "b", "c"}
RESERVED_WORDS == {"select", "user", "table"}
RESERVED_COLLECTION_NAMES == {"_users"}
RequestNames == Names \cup {"select", "Orders"}
FieldNames == {"title"}
\* Field names of the _users collection that a tenant sends, and the names
\* of the system fields.
EvolutionNames == {"owner"}
SystemFieldNames == {"email", "password_hash", "is_email_verified", "is_disabled"}
\* View names a project member sends.
ViewNames == {"report"}

Sessions == {"s1", "s2"}
Cids == 1..MaxCollections

\* SLUG_PATTERN ^[a-z][a-z0-9_]{0,62}$ over the candidate identifiers.
SlugPatternMatches(name) == name \in Names \cup FieldNames \cup RESERVED_WORDS \cup EvolutionNames \cup SystemFieldNames \cup ViewNames

\* The pattern alone.
validate_slug_pattern_only(name) == SlugPatternMatches(name)

validate_slug(name) ==
    IF ~SlugPatternMatches(name) THEN FALSE
    ELSE IF name \in RESERVED_WORDS THEN FALSE
    ELSE TRUE

VARIABLES
    is_sqlite,      \* the backend dialect of this deployment (_is_sqlite)
    collections,    \* committed catalog rows: cid -> Collection
    fields,         \* committed catalog: cid -> set of Field names
    tables,         \* committed physical tables (by sql name)
    columns,        \* committed physical columns: table name -> set of names
    aliases,        \* committed CollectionAlias rows, in insertion order
    schema_ops,     \* committed SchemaOp ledger
    schema_created, \* the tenant namespace exists (PostgreSQL)
    now,            \* datetime.utcnow(), in days
    advisory,       \* pg advisory locks: key -> [holder, count]
    pc,             \* per session: position inside the running handler
    req,            \* per session: the running request and its loaded rows
    txn,            \* per session: state of the session's transaction
    last_read,      \* outcome of the last data read
    nreq,           \* requests started so far
    policies,       \* SpecPolicy: Policy rows of the collection
    decision,       \* SpecPolicy: the last permission check
    field_rows,     \* SpecFields: Field rows of the _users collection, by id
    field_columns,  \* SpecFields: physical columns of the _users table
    field_aliases,  \* SpecFields: FieldAlias rows
    field_ops,      \* SpecFields: SchemaOp ledger of the _users collection
    field_result,   \* SpecFields: the last field request and its outcome
    field_nreq,     \* SpecFields: field requests served so far
    views,          \* SpecViews: View rows, by id
    view_versions,  \* SpecViews: ViewVersion rows
    view_result,    \* SpecViews: the last response
    users_rows,     \* SpecViews: number of rows in the _users table
    role_rows,      \* SpecRoles: Role rows of the project, by id
    role_req,       \* SpecRoles: per session, the running role request
    role_nreq,      \* SpecRoles: role requests started so far
    app_user_roles, \* SpecRoleGate: AppUserRole rows
    evaluation,     \* SpecConditions: a condition, its inputs and its value
    records,        \* SpecRecords: rows of the collection's table, by id
    record_result   \* SpecRecords: the last response of a record route

catalogVars == <<is_sqlite, collections, fields, tables, columns, aliases,
                 schema_ops, schema_created, now, advisory, pc, req, txn,
                 last_read, nreq>>
policyVars == <<policies, decision>>
fieldVars == <<field_rows, field_columns, field_aliases, field_ops,
               field_result, field_nreq>>
viewVars == <<views, view_versions, view_result, users_rows>>
roleVars == <<role_rows, role_req, role_nreq>>
dataVars == <<app_user_roles, evaluation, records, record_result>>
vars == <<catalogVars, policyVars, fieldVars, viewVars, roleVars, dataVars>>


(***************************************************************************)
(* Catalog rows and helpers.                                               *)
(***************************************************************************)
NoCollection == [present |-> FALSE, name |-> "", sql_table_name |-> "",
                 is_active |-> FALSE, is_system |-> FALSE]

NoRequest == [op |-> "none", cid |-> 0, new_name |-> "", name |-> "",
              sql_table_name |-> "", field |-> ""]

NoRead == [name |-> "", cid |-> 0, status |-> "none", racing |-> FALSE,
           alias_targets |-> {}]

SchemaOp(op_type, cid, old_name, new_name) ==
    [op_type |-> op_type, collection_id |-> cid,
     old_name |-> old_name, new_name |-> new_name]

\* Rows of the collections table with this name (any is_active).
CollectionsNamed(name) ==
    {c \in Cids : collections[c].present /\ collections[c].name = name}

\* The id a new Collection row gets (a fresh primary key).
FreeCids == {c \in Cids : ~collections[c].present}
NewCid == CHOOSE c \in FreeCids : \A d \in FreeCids : c <= d

\* lock_key = hash(f"{project_id}:{collection_id}") % 2**31, one project.
LockKey(cid) == cid

\* SELECT pg_try_advisory_lock(:key): granted unless another session holds
\* the key; a session may take the same key again (a counted lock).
PgTryAdvisoryLock(s, key) ==
    advisory[key].holder \in {"none", s}

AdvisoryAfterLock(s, key) ==
    [advisory EXCEPT ![key] = [holder |-> s, count |-> advisory[key].count + 1]]

\* SELECT pg_advisory_unlock(:key): one count of the session's hold.
AdvisoryAfterUnlock(s, key) ==
    IF advisory[key].holder # s THEN advisory
    ELSE IF advisory[key].count = 1
         THEN [advisory EXCEPT ![key] = [holder |-> "none", count |-> 0]]
         ELSE [advisory EXCEPT ![key].count = advisory[key].count - 1]

\* The session has an open database transaction that has written.  On
\* SQLite the driver opens a transaction at the first INSERT/UPDATE/DELETE
\* only: rename_collection runs its ALTER TABLE before any of them, so that
\* statement takes effect at once and leaves no transaction open, while
\* add_field flushes its Field row before the ALTER TABLE.
HoldsWriteTransaction(t) ==
    /\ txn[t] = "pending"
    /\ is_sqlite => req[t].op # "rename_collection"

\* The physical tables a session's uncommitted DDL has touched.
Touched(t) ==
    IF ~HoldsWriteTransaction(t) THEN {}
    ELSE IF req[t].op = "rename_collection"
         THEN {req[t].sql_table_name, req[t].new_name}
         ELSE {req[t].sql_table_name}

\* A DDL statement waits while another session's open transaction holds the
\* table (PostgreSQL: per table; SQLite: one writer for the whole file).
DdlBlocked(s, names) ==
    \E t \in Sessions \ {s} :
        /\ HoldsWriteTransaction(t)
        /\ (is_sqlite \/ Touched(t) \cap names # {})

(***************************************************************************)
(* resolve_collection_by_name_or_alias: the set of ids (0 for None) the    *)
(* two .first() queries can return for a name.                             *)
(***************************************************************************)
AliasResolves(al) == al.expires_at > now

ResolveOutcomes(name) ==
    LET byName == {c \in CollectionsNamed(name) : collections[c].is_active}
        rows == {i \in DOMAIN aliases : aliases[i].old_name = name}
    IN  IF byName # {} THEN byName
        ELSE IF rows = {} THEN {0}
        ELSE {IF AliasResolves(aliases[i])
              THEN aliases[i].collection_id ELSE 0 : i \in rows}

(***************************************************************************)
(* Initial state: a tenant with one collection "a", on either backend.     *)
(***************************************************************************)
NoDecision == [checked |-> FALSE]

\* The tenant as it stands after its first create_collection("a").
(***************************************************************************)
(* Authorization (policy_service.py, api/deps.py): specification           *)
(* SpecPolicy.                                                             *)
(***************************************************************************)
VALID_ACTIONS == {"create", "read", "update", "delete", "list"}
VALID_EFFECTS == {"allow", "deny"}
VALID_PRINCIPALS == {"admin_user", "app_user", "api_key", "anonymous"}
DEFAULT_ALLOWED_PRINCIPALS_WITH_APP_USER == {"admin_user", "api_key", "app_user"}

DEFAULT_ALLOWED_PRINCIPALS == {"admin_user", "api_key"}

\* Python's None, for ids, emails and record values.
None == "None"

\* str.strip() over the raw tokens used here.
Strip(tok) ==
    IF tok = " api_key" THEN "api_key"
    ELSE IF tok = " " THEN ""
    ELSE tok

\* [p.strip() for p in s.split(",") if p.strip()]: a comma-separated column
\* is held as the sequence of its raw tokens, <<>> standing for None / "".
ParseCsv(raw) ==
    LET Kept(tok) == Strip(tok) # ""
        kept == SelectSeq(raw, Kept)
    IN  [i \in DOMAIN kept |-> Strip(kept[i])]

SeqRange(seq) == {seq[i] : i \in DOMAIN seq}

\* A condition tree node (the decoded condition_json).  field = None and
\* value = None stand for an absent key.
Cond(type, field, value, conditions) ==
    [type |-> type, field |-> field, value |-> value, conditions |-> conditions]

\* condition_json is None; also the dict {}, a node without a type.
NoCondition == Cond("", None, None, <<>>)

\* Principals (api/deps.py).
Principal(type, admin_user, app_user, verified) ==
    [type |-> type, admin_user |-> admin_user, app_user |-> app_user,
     app_user_is_email_verified |-> verified]

Principals ==
    { Principal("admin_user", "adm", None, FALSE),
      Principal("app_user", None, "u1", TRUE),
      Principal("app_user", None, "u2", FALSE),
      Principal("api_key", None, None, FALSE),
      Principal("anonymous", None, None, FALSE) }

is_authenticated(principal) == principal.type # "anonymous"

user_id(principal) ==
    IF principal.admin_user # None THEN principal.admin_user
    ELSE IF principal.app_user # None THEN principal.app_user
    ELSE None

EmailOf(id) ==
    IF id = "adm" THEN "adm@example.com"
    ELSE IF id = "u1" THEN "u1@example.com"
    ELSE "u2@example.com"

email(principal) ==
    IF principal.admin_user # None THEN EmailOf(principal.admin_user)
    ELSE IF principal.app_user # None THEN EmailOf(principal.app_user)
    ELSE None

is_email_verified(principal) ==
    IF principal.app_user # None THEN principal.app_user_is_email_verified
    ELSE IF principal.admin_user # None THEN TRUE
    ELSE FALSE

\* The record a check is made against: None, or a row (a dict with the keys
\* created_by_app_user_id and status) owned by app user u1.
NoRecord == [is_none |-> TRUE, created_by_app_user_id |-> None, status |-> None]
Records == {NoRecord, [is_none |-> FALSE, created_by_app_user_id |-> "u1", status |-> None]}

\* The keys of a record.
RecordKeys == {"created_by_app_user_id", "status"}

\* record.get(field): None for a key the dict does not have.
RecordGet(record, field) ==
    IF field = "created_by_app_user_id" THEN record.created_by_app_user_id
    ELSE IF field = "status" THEN record.status
    ELSE None

RECURSIVE _evaluate_condition_unknown_is_false(_, _, _)
_evaluate_condition_unknown_is_false(condition, principal, record) ==
    LET cond_type == condition.type
        owner_field == IF condition.field = None
                       THEN "created_by_app_user_id" ELSE condition.field
        value == IF condition.value = "principal.user_id" THEN user_id(principal)
                 ELSE IF condition.value = "principal.email" THEN email(principal)
                 ELSE IF condition.value = "principal.app_user_id"
                         /\ principal.app_user # None THEN principal.app_user
                 ELSE condition.value
        Sub(i) == _evaluate_condition_unknown_is_false(
                      condition.conditions[i], principal, record)
        sub_condition == IF condition.conditions = <<>> THEN NoCondition
                         ELSE condition.conditions[1]
    IN  IF cond_type = "authenticated" THEN is_authenticated(principal)
        ELSE IF cond_type = "owner" THEN
            IF user_id(principal) = None \/ record.is_none THEN FALSE
            ELSE RecordGet(record, owner_field) = user_id(principal)
        ELSE IF cond_type = "app_user_owner" THEN
            IF principal.app_user = None \/ record.is_none THEN FALSE
            ELSE RecordGet(record, owner_field) = principal.app_user
        ELSE IF cond_type = "field_equals" THEN
            IF record.is_none THEN FALSE
            ELSE RecordGet(record, condition.field) = value
        ELSE IF cond_type = "and" THEN \A i \in DOMAIN condition.conditions : Sub(i)
        ELSE IF cond_type = "or" THEN \E i \in DOMAIN condition.conditions : Sub(i)
        ELSE IF cond_type = "not" THEN
            ~_evaluate_condition_unknown_is_false(sub_condition, principal, record)
        ELSE FALSE

RECURSIVE _evaluate_condition_for_principal(_, _, _)
_evaluate_condition_for_principal(condition, principal, record) ==
    LET cond_type == condition.type
        owner_field == IF condition.field = None
                       THEN "created_by_app_user_id" ELSE condition.field
        value == IF condition.value = "principal.user_id" THEN user_id(principal)
                 ELSE IF condition.value = "principal.email" THEN email(principal)
                 ELSE IF condition.value = "principal.app_user_id"
                         /\ principal.app_user # None THEN principal.app_user
                 ELSE condition.value
        Sub(i) == _evaluate_condition_for_principal(
                      condition.conditions[i], principal, record)
        \* condition.get("condition", {}): the empty dict when the key is absent
        sub_condition == IF condition.conditions = <<>> THEN NoCondition
                         ELSE condition.conditions[1]
    IN  IF cond_type = "authenticated" THEN is_authenticated(principal)
        ELSE IF cond_type = "owner" THEN
            IF user_id(principal) = None \/ record.is_none THEN FALSE
            ELSE RecordGet(record, owner_field) = user_id(principal)
        ELSE IF cond_type = "app_user_owner" THEN
            IF principal.app_user = None \/ record.is_none THEN FALSE
            ELSE RecordGet(record, owner_field) = principal.app_user
        ELSE IF cond_type = "field_equals" THEN
            IF record.is_none THEN FALSE
            ELSE RecordGet(record, condition.field) = value
        ELSE IF cond_type = "and" THEN \A i \in DOMAIN condition.conditions : Sub(i)
        ELSE IF cond_type = "or" THEN \E i \in DOMAIN condition.conditions : Sub(i)
        ELSE IF cond_type = "not" THEN
            ~_evaluate_condition_for_principal(sub_condition, principal, record)
        ELSE TRUE

\* Policy rows.
MaxPolicies == 2

PolicyRow(action, effect, priority, allowed_principals, require_email_verified, allowed_roles, condition) ==
    [action |-> action, effect |-> effect, priority |-> priority,
     allowed_principals |-> allowed_principals,
     require_email_verified |-> require_email_verified,
     allowed_roles |-> allowed_roles, condition |-> condition]

\* The policies a tenant may submit.  The last one names an unknown
\* principal type and is refused.
PolicyInputs ==
    { PolicyRow("read", "allow", 1, <<"app_user", "anonymous">>, FALSE, <<>>,
                NoCondition),
      PolicyRow("read", "deny", 1,
                <<"admin_user", "app_user", "api_key", "anonymous">>, FALSE,
                <<>>, NoCondition),
      PolicyRow("read", "allow", 0, <<"app_user", " api_key">>, TRUE, <<>>,
                NoCondition),
      PolicyRow("update", "allow", 0, <<"app_user">>, FALSE, <<>>,
                Cond("owner", None, None, <<>>)),
      PolicyRow("read", "deny", 0, <<"app_user">>, FALSE, <<"editor">>,
                NoCondition),
      PolicyRow("read", "allow", 2, <<"app_user">>, FALSE,
                <<"editor", " member">>, NoCondition),
      PolicyRow("update", "deny", 1, <<>>, FALSE, <<>>, NoCondition),
      PolicyRow("read", "allow", 1, <<"", " ">>, FALSE, <<>>, NoCondition),
      PolicyRow("read", "allow", 0, <<"superuser">>, FALSE, <<>>, NoCondition) }

CheckedActions == {"read", "update"}

\* A stored Policy: the submitted columns, its collection and is_active.
\* The table is held as a set: rows equal in every column are one row.
Policy(c, is_active, row) ==
    [collection_id |-> c, is_active |-> is_active, row |-> row]

\* Lines 32-60: the validation of create_policy.
CreatePolicyAccepts(row) ==
    /\ row.action \in VALID_ACTIONS
    /\ row.effect \in VALID_EFFECTS
    /\ row.allowed_principals # <<>> =>
          SeqRange(ParseCsv(row.allowed_principals)) \subseteq VALID_PRINCIPALS

\* Every row the table may hold.
PolicyRows ==
    {Policy(c, is_active, row) :
        c \in Cids, is_active \in BOOLEAN, row \in PolicyInputs}

create_policy(c, row) ==
    /\ collections[c].present
    /\ Cardinality(policies) < MaxPolicies
    /\ CreatePolicyAccepts(row)
    /\ policies' = policies \cup {Policy(c, TRUE, row)}
    /\ decision' = NoDecision
    /\ UNCHANGED <<catalogVars, fieldVars, viewVars, roleVars, dataVars>>

\* update_policy(is_active = ...): the only column changed here.
update_policy(policy, is_active) ==
    /\ policy \in policies
    /\ policy.is_active # is_active
    /\ policies' = (policies \ {policy})
                        \cup {Policy(policy.collection_id, is_active, policy.row)}
    /\ decision' = NoDecision
    /\ UNCHANGED <<catalogVars, fieldVars, viewVars, roleVars, dataVars>>

delete_policy(policy) ==
    /\ policy \in policies
    /\ policies' = policies \ {policy}
    /\ decision' = NoDecision
    /\ UNCHANGED <<catalogVars, fieldVars, viewVars, roleVars, dataVars>>

\* Permutations of a finite set, as sequences.
Orderings(S) ==
    {f \in [1..Cardinality(S) -> S] : \A x \in S : \E i \in DOMAIN f : f[i] = x}

ActivePolicies(c) ==
    {policy \in policies : policy.collection_id = c /\ policy.is_active}

list_policies_ascending(c) ==
    {ord \in Orderings(ActivePolicies(c)) :
        \A i, j \in DOMAIN ord :
            i < j => ord[i].row.priority <= ord[j].row.priority}

\* The active policies of the collection ORDER BY priority DESC: every
\* ordering the database may return (rows of equal priority in any order).
list_policies(c) ==
    {ord \in Orderings(ActivePolicies(c)) :
        \A i, j \in DOMAIN ord :
            i < j => ord[i].row.priority >= ord[j].row.priority}

_get_allowed_principals(policy) ==
    IF policy.allowed_principals = <<>> THEN DEFAULT_ALLOWED_PRINCIPALS
    ELSE SeqRange(ParseCsv(policy.allowed_principals))

\* A value bound to a parameter of a statement: a str, or the AppUserRecord
\* dataclass (app_user_service.py 20-34) of the app user with that id.
BoundStr(s) == [python_type |-> "str", value |-> s]
BoundAppUserRecord(id) == [python_type |-> "AppUserRecord", value |-> id]

\* An AppUserRole row (models/role.py).
AppUserRole(app_user_id, role_id) == [app_user_id |-> app_user_id, role_id |-> role_id]

\* rbac_service.get_user_roles: the names of the roles joined to the
\* AppUserRole rows whose app_user_id equals the bound parameter.  The
\* driver binds a str; handed any other object the execute raises.
get_user_roles(app_user_id) ==
    IF app_user_id.python_type # "str"
    THEN [raises |-> TRUE, names |-> {}]
    ELSE [raises |-> FALSE,
          names |-> {role_rows[row.role_id].name :
                       row \in {r \in app_user_roles :
                                  /\ r.app_user_id = app_user_id.value
                                  /\ role_rows[r.role_id].present}}]

\* Line 264 hands principal.app_user, the AppUserRecord, to get_user_roles.
_check_user_has_role(principal, allowed_roles) ==
    IF principal.app_user = None THEN [raises |-> FALSE, value |-> FALSE]
    ELSE LET required_roles == SeqRange(ParseCsv(allowed_roles))
         IN  IF required_roles = {} THEN [raises |-> FALSE, value |-> TRUE]
             ELSE LET user_roles == get_user_roles(BoundAppUserRecord(principal.app_user))
                  IN  [raises |-> user_roles.raises,
                       value |-> required_roles \cap user_roles.names # {}]

\* Lines 221-236: the scan reaches the role check of the policy and the
\* check raises.
PolicyRaises(policy, action, principal) ==
    /\ policy.action = action
    /\ principal.type \in _get_allowed_principals(policy)
    /\ ~(policy.require_email_verified /\ ~is_email_verified(principal))
    /\ policy.allowed_roles # <<>>
    /\ principal.type = "app_user"
    /\ _check_user_has_role(principal, policy.allowed_roles).raises

\* The gate without its condition.
PolicyMatchesIgnoringCondition(policy, action, principal, record) ==
    /\ policy.action = action
    /\ principal.type \in _get_allowed_principals(policy)
    /\ ~(policy.require_email_verified /\ ~is_email_verified(principal))
    /\ ~(/\ policy.allowed_roles # <<>>
         /\ principal.type = "app_user"
         /\ ~_check_user_has_role(principal, policy.allowed_roles).value)

\* Lines 221-242: one policy of the scan is not skipped.
PolicyMatches(policy, action, principal, record) ==
    IF policy.action # action THEN FALSE
    ELSE IF principal.type \notin _get_allowed_principals(policy) THEN FALSE
    ELSE IF policy.require_email_verified /\ ~is_email_verified(principal)
    THEN FALSE
    ELSE IF /\ policy.allowed_roles # <<>>
            /\ principal.type = "app_user"
            /\ ~_check_user_has_role(principal, policy.allowed_roles).value
    THEN FALSE
    ELSE IF /\ policy.condition # NoCondition
            /\ ~_evaluate_condition_for_principal(policy.condition, principal,
                                                   record)
    THEN FALSE
    ELSE TRUE

RECURSIVE ScanPoliciesDefaultAllow(_, _, _, _)
RECURSIVE ScanPolicies(_, _, _, _)
ScanPoliciesDefaultAllow(plist, action, principal, record) ==
    IF plist = <<>> THEN TRUE
    ELSE IF PolicyMatches(Head(plist).row, action, principal, record)
    THEN Head(plist).row.effect = "allow"
    ELSE ScanPoliciesDefaultAllow(Tail(plist), action, principal, record)

\* Lines 220-247: the loop over the policies and the final return False.
ScanPolicies(plist, action, principal, record) ==
    IF plist = <<>> THEN FALSE
    ELSE IF PolicyMatches(Head(plist).row, action, principal, record)
    THEN Head(plist).row.effect = "allow"
    ELSE ScanPolicies(Tail(plist), action, principal, record)

\* The app users of the project (rows of its _users table).
AppUserIds == {"u1", "u2"}

\* POST /users/{user_id}/roles (rbac.py 98-119) with one role id: 404 for an
\* unknown app user or role; assign_role_to_user (rbac_service.py 126-161)
\* raises 409 for a role already assigned, which the route swallows, and
\* inserts the AppUserRole row otherwise.
assign_roles_to_user(uid, role_id) ==
    /\ IF uid \notin AppUserIds \/ ~role_rows[role_id].present
       THEN UNCHANGED app_user_roles
       ELSE app_user_roles' = app_user_roles \cup {AppUserRole(uid, role_id)}
    /\ UNCHANGED <<catalogVars, policyVars, fieldVars, viewVars, roleVars,
                   evaluation, records, record_result>>

\* DELETE /users/{user_id}/roles/{role_id} (rbac.py 122-134): 404 for an
\* unknown app user or role and, in remove_role_from_user (rbac_service.py
\* 164-178), for a role the user does not hold.
remove_role_from_user(uid, role_id) ==
    /\ IF \/ uid \notin AppUserIds
          \/ ~role_rows[role_id].present
          \/ AppUserRole(uid, role_id) \notin app_user_roles
       THEN UNCHANGED app_user_roles
       ELSE app_user_roles' = app_user_roles \ {AppUserRole(uid, role_id)}
    /\ UNCHANGED <<catalogVars, policyVars, fieldVars, viewVars, roleVars,
                   evaluation, records, record_result>>

\* The loop reaches a policy whose role check raises before any policy
\* that is not skipped.
RECURSIVE ScanRaises(_, _, _, _)
ScanRaises(plist, action, principal, record) ==
    IF plist = <<>> THEN FALSE
    ELSE IF PolicyRaises(Head(plist).row, action, principal) THEN TRUE
    ELSE IF PolicyMatches(Head(plist).row, action, principal, record)
    THEN FALSE
    ELSE ScanRaises(Tail(plist), action, principal, record)

\* The orderings of list_policies under which the scan returns.
ReturningLists(c, action, principal, record) ==
    {plist \in list_policies(c) : ~ScanRaises(plist, action, principal, record)}

CheckPermissionWithoutAdminShortcut(c, action, principal, record) ==
    {IF plist = <<>> THEN principal.type \in DEFAULT_ALLOWED_PRINCIPALS
     ELSE ScanPolicies(plist, action, principal, record) :
        plist \in ReturningLists(c, action, principal, record)}

\* The values check_permission_for_principal may return (one per ordering
\* list_policies may produce under which it returns).
check_permission_for_principal(c, action, principal, record) ==
    IF principal.type = "admin_user" THEN {TRUE}
    ELSE {IF plist = <<>> THEN principal.type \in DEFAULT_ALLOWED_PRINCIPALS
          ELSE ScanPolicies(plist, action, principal, record) :
             plist \in ReturningLists(c, action, principal, record)}

\* check_permission_for_principal may raise: under some ordering the role
\* check of a policy is reached and raises.
check_permission_raises(c, action, principal, record) ==
    /\ principal.type # "admin_user"
    /\ \E plist \in list_policies(c) :
          ScanRaises(plist, action, principal, record)

\* _check_policy (routes/data.py): a request's permission check.
CheckPolicy(c, action, principal, record) ==
    /\ collections[c].present
    /\ \/ \E allowed \in check_permission_for_principal(c, action, principal, record) :
             decision' = [checked |-> TRUE, collection |-> c, action |-> action,
                          principal |-> principal, record |-> record,
                          allowed |-> allowed, raised |-> FALSE]
       \/ /\ check_permission_raises(c, action, principal, record)
          /\ decision' = [checked |-> TRUE, collection |-> c, action |-> action,
                          principal |-> principal, record |-> record,
                          allowed |-> FALSE, raised |-> TRUE]
    /\ UNCHANGED <<catalogVars, policies, fieldVars, viewVars, roleVars, dataVars>>

(***************************************************************************)
(* Condition trees (policy_service.py 317-367): specification              *)
(* SpecConditions draws a condition, a principal and a record and          *)
(* evaluates the condition, and the gate of a policy that carries it.      *)
(***************************************************************************)
\* The node kinds _evaluate_condition_for_principal tests for.
ConditionKinds == {"authenticated", "owner", "app_user_owner", "field_equals", "and", "or", "not"}

\* Leaves a tenant may store.  "owner_id" is not a key of any record; a
\* value of None is an absent or null "value"; "custom" is no node kind.
ConditionLeaves ==
    { Cond("authenticated", None, None, <<>>),
      Cond("owner", None, None, <<>>),
      Cond("owner", "owner_id", None, <<>>),
      Cond("app_user_owner", None, None, <<>>),
      Cond("field_equals", "status", "open", <<>>),
      Cond("field_equals", "status", None, <<>>),
      Cond("field_equals", "owner_id", None, <<>>),
      Cond("field_equals", "owner_id", "principal.user_id", <<>>),
      Cond("field_equals", "owner_id", "principal.email", <<>>),
      Cond("field_equals", "created_by_app_user_id", "principal.app_user_id", <<>>),
      Cond("field_equals", None, None, <<>>),
      Cond("custom", None, None, <<>>),
      NoCondition }

\* The trees evaluated: the leaves, "not" without and with a sub-condition,
\* and one "and" and one "or" node.
ConditionInputs ==
    ConditionLeaves
    \cup {Cond("not", None, None, <<>>),
          Cond("not", None, None, <<Cond("custom", None, None, <<>>)>>),
          Cond("not", None, None, <<Cond("owner", None, None, <<>>)>>),
          Cond("and", None, None, <<Cond("authenticated", None, None, <<>>),
                                    Cond("field_equals", "status", "open", <<>>)>>),
          Cond("or", None, None, <<Cond("owner", None, None, <<>>),
                                   Cond("field_equals", "owner_id", None, <<>>)>>)}

\* The records evaluated: None, and rows of app users u1 and u2.
ConditionRecords ==
    Records
    \cup {[is_none |-> FALSE, created_by_app_user_id |-> "u2", status |-> "open"],
          [is_none |-> FALSE, created_by_app_user_id |-> None, status |-> "closed"]}

\* A policy that every principal type and the action "read" pass, carrying
\* the condition.
PolicyCarrying(condition) ==
    PolicyRow("read", "allow", 0, <<"app_user", "api_key", "anonymous">>, FALSE,
              <<>>, condition)

NoEvaluation == [evaluated |-> FALSE]

ConditionEvaluations ==
    {[evaluated |-> FALSE, condition |-> c, principal |-> p, record |-> r,
      result |-> FALSE, applies |-> FALSE] :
        c \in ConditionInputs, p \in Principals, r \in ConditionRecords}

\* Lines 238-244 and 317-367: the condition is evaluated for the principal
\* and the record, and a policy carrying it is applied or skipped.
EvaluateCondition ==
    /\ evaluation.evaluated = FALSE
    /\ evaluation' =
          [evaluation EXCEPT
             !.evaluated = TRUE,
             !.result = _evaluate_condition_for_principal(
                            evaluation.condition, evaluation.principal,
                            evaluation.record),
             !.applies = PolicyMatches(PolicyCarrying(evaluation.condition),
                                       "read", evaluation.principal,
                                       evaluation.record)]
    /\ UNCHANGED <<catalogVars, policyVars, fieldVars, viewVars, roleVars,
                   app_user_roles, records, record_result>>

NoRecordResult == [route |-> "none"]

\* No role is assigned, nothing was evaluated, the table has no rows.
InitData ==
    /\ app_user_roles = {}
    /\ evaluation = NoEvaluation
    /\ records = <<>>
    /\ record_result = NoRecordResult

(***************************************************************************)
(* Field catalog of the _users collection (specification SpecFields).      *)
(* The handlers of app/services/collections.py, relation_service.py and    *)
(* schema_evolution.py are run one request at a time; each action is a     *)
(* whole request, from the route's lookup to the commit or the error.      *)
(***************************************************************************)
MaxFields == 6          \* Field ids are 1..MaxFields
MaxFieldRequests == 3   \* field requests served in one run

FieldIds == 1..MaxFields

\* Identifiers a tenant sends as field names; "Orders" violates SLUG_PATTERN.
FieldRequestNames == EvolutionNames \cup {"email", "Orders"}

FIELD_TYPE_MAP == {"string", "int", "float", "bool", "date", "datetime", "uuid"}
SAFE_TYPE_CONVERSIONS_WITH_STRING_INT == {<<"int", "float">>, <<"string", "text">>,
                                   <<"date", "datetime">>, <<"string", "int">>}
SAFE_TYPE_CONVERSIONS == {<<"int", "float">>, <<"string", "text">>,
                          <<"date", "datetime">>}

\* Types a tenant sends to add_field and to change_field_type.
AddFieldTypes == {"int", "text"}
NewTypes == {"float", "text", "int"}

FieldRow(name, sql_column_name, field_type, is_unique, is_indexed, is_system, is_hidden) == [present |-> TRUE, dropped |-> FALSE, name |-> name, sql_column_name |-> sql_column_name, field_type |-> field_type, is_unique |-> is_unique, is_indexed |-> is_indexed, is_deleted |-> FALSE, deleted_at |-> 0, is_system |-> is_system, is_hidden |-> is_hidden]

\* No row with this id was ever inserted.
NoField == [present |-> FALSE, dropped |-> FALSE]
\* The row with this id was deleted by hard_delete_field; ids are uuids and
\* are never handed out twice.
DroppedFieldAsNeverInserted == [present |-> FALSE, dropped |-> FALSE]
DroppedField == [present |-> FALSE, dropped |-> TRUE]

USERS_SYSTEM_FIELDS ==
    <<FieldRow("email", "email", "string", TRUE, TRUE, TRUE, FALSE),
      FieldRow("password_hash", "password_hash", "string", FALSE, FALSE, TRUE, TRUE),
      FieldRow("is_email_verified", "is_email_verified", "bool", FALSE, FALSE, TRUE, FALSE),
      FieldRow("is_disabled", "is_disabled", "bool", FALSE, FALSE, TRUE, FALSE)>>

\* Columns of the table made by _create_users_table.
UsersTableColumns ==
    {"id", "email", "password_hash", "is_email_verified", "is_disabled",
     "created_at", "updated_at", "created_by_user_id", "created_by_app_user_id"}

FieldSchemaOp(op_type, fid) == [op_type |-> op_type, field_id |-> fid]

NoFieldResult == [n |-> 0, op |-> "none", field_id |-> 0, arg |-> "", force |-> FALSE, outcome |-> "none", ddl |-> 0]

\* The state after create_users_collection.
InitFieldCatalog ==
    /\ field_rows = [f \in FieldIds |->
          IF f <= Len(USERS_SYSTEM_FIELDS) THEN USERS_SYSTEM_FIELDS[f]
          ELSE NoField]
    /\ field_columns = UsersTableColumns
    /\ field_aliases = {}
    /\ field_ops = <<FieldSchemaOp("create_users_collection", 0)>>
    /\ field_result = NoFieldResult
    /\ field_nreq = 0

PresentFields == {f \in FieldIds : field_rows[f].present}

\* db.query(Field).filter(collection_id, name).first(): deleted rows count.
FieldsNamed(name) == {f \in PresentFields : field_rows[f].name = name}

NewFieldIds == {f \in FieldIds : ~field_rows[f].present /\ ~field_rows[f].dropped}
NewFieldId == CHOOSE f \in NewFieldIds : \A g \in NewFieldIds : f <= g

\* list_fields: soft-deleted rows never, hidden rows only on request.
list_fields(include_hidden) ==
    {f \in PresentFields :
        /\ ~field_rows[f].is_deleted
        /\ (include_hidden \/ ~field_rows[f].is_hidden)}

\* The handler answers: the request counter moves and the request (its field
\* id, its name or type argument, its force flag) is kept with the outcome.
\* ddl is the number of DDL statements the handler sent to the database.
FieldResponse(op, fid, arg, force, outcome, ddl) ==
    /\ field_nreq < MaxFieldRequests
    /\ field_nreq' = field_nreq + 1
    /\ field_result' = [n |-> field_nreq + 1, op |-> op, field_id |-> fid,
                        arg |-> arg, force |-> force, outcome |-> outcome,
                        ddl |-> ddl]

FieldCatalogUnchanged ==
    UNCHANGED <<field_rows, field_columns, field_aliases, field_ops>>

\* ALTER TABLE ... ADD COLUMN fails when the column exists.
AddColumnFails(column_name) == column_name \in field_columns

add_field(name, field_type) ==
    /\ NewFieldIds # {}
    /\ IF ~validate_slug(name) THEN
          FieldResponse("add_field", 0, name, FALSE, "validation_error", 0) /\ FieldCatalogUnchanged
       ELSE IF field_type \notin FIELD_TYPE_MAP THEN
          FieldResponse("add_field", 0, name, FALSE, "validation_error", 0) /\ FieldCatalogUnchanged
       ELSE IF FieldsNamed(name) # {} THEN
          FieldResponse("add_field", 0, name, FALSE, "validation_error", 0) /\ FieldCatalogUnchanged
       ELSE IF AddColumnFails(name) THEN
          FieldResponse("add_field", 0, name, FALSE, "db_error", 1) /\ FieldCatalogUnchanged
       ELSE
          /\ field_rows' = [field_rows EXCEPT ![NewFieldId] =
                FieldRow(name, name, field_type, FALSE, FALSE, FALSE, FALSE)]
          /\ field_columns' = field_columns \cup {name}
          /\ field_ops' = Append(field_ops, FieldSchemaOp("add_column", NewFieldId))
          /\ FieldResponse("add_field", NewFieldId, name, FALSE, "ok", 1)
          /\ UNCHANGED field_aliases
    /\ UNCHANGED <<catalogVars, policyVars, viewVars, roleVars, dataVars>>

\* sql_column_name = f"{name}_id"
RelationColumn(name) == name \o "_id"

create_relation_field(name) ==
    /\ NewFieldIds # {}
    /\ IF ~validate_slug(name) THEN
          FieldResponse("create_relation_field", 0, name, FALSE, "validation_error", 0)
          /\ FieldCatalogUnchanged
       ELSE IF AddColumnFails(RelationColumn(name)) THEN
          FieldResponse("create_relation_field", 0, name, FALSE, "db_error", 1)
          /\ FieldCatalogUnchanged
       ELSE
          /\ field_rows' = [field_rows EXCEPT ![NewFieldId] =
                FieldRow(name, RelationColumn(name), "relation", FALSE, TRUE, FALSE, FALSE)]
          /\ field_columns' = field_columns \cup {RelationColumn(name)}
          /\ field_ops' = Append(field_ops,
                                 FieldSchemaOp("add_relation_column", NewFieldId))
          /\ FieldResponse("create_relation_field", NewFieldId, name, FALSE, "ok",
                           IF is_sqlite THEN 2 ELSE 3)
          /\ UNCHANGED field_aliases
    /\ UNCHANGED <<catalogVars, policyVars, viewVars, roleVars, dataVars>>

\* ALTER TABLE ... RENAME COLUMN fails when the old column is missing or the
\* new name is taken.
RenameColumnFails(old_column, new_column) ==
    old_column \notin field_columns \/ new_column \in field_columns

rename_field(fid, new_name) ==
    /\ IF ~field_rows[fid].present THEN
          FieldResponse("rename_field", fid, new_name, FALSE, "not_found", 0) /\ FieldCatalogUnchanged
       ELSE IF ~validate_slug(new_name) THEN
          FieldResponse("rename_field", fid, new_name, FALSE, "validation_error", 0)
          /\ FieldCatalogUnchanged
       ELSE IF RenameColumnFails(field_rows[fid].sql_column_name, new_name) THEN
          FieldResponse("rename_field", fid, new_name, FALSE, "db_error", 1) /\ FieldCatalogUnchanged
       ELSE
          /\ field_columns' =
                (field_columns \ {field_rows[fid].sql_column_name}) \cup {new_name}
          /\ field_aliases' = field_aliases \cup
                {[field_id |-> fid, old_name |-> field_rows[fid].name]}
          /\ field_rows' = [field_rows EXCEPT ![fid].name = new_name,
                                              ![fid].sql_column_name = new_name]
          /\ field_ops' = Append(field_ops, FieldSchemaOp("rename_column", fid))
          /\ FieldResponse("rename_field", fid, new_name, FALSE, "ok", 1)
    /\ UNCHANGED <<catalogVars, policyVars, viewVars, roleVars, dataVars>>

soft_delete_field(fid) ==
    /\ IF ~field_rows[fid].present THEN
          FieldResponse("soft_delete_field", fid, "", FALSE, "not_found", 0) /\ FieldCatalogUnchanged
       ELSE IF field_rows[fid].is_deleted THEN
          FieldResponse("soft_delete_field", fid, "", FALSE, "validation_error", 0)
          /\ FieldCatalogUnchanged
       ELSE
          /\ field_rows' = [field_rows EXCEPT ![fid].is_deleted = TRUE,
                                              ![fid].deleted_at = field_nreq + 1]
          /\ field_ops' = Append(field_ops, FieldSchemaOp("soft_delete_column", fid))
          /\ FieldResponse("soft_delete_field", fid, "", FALSE, "ok", 0)
          /\ UNCHANGED <<field_columns, field_aliases>>
    /\ UNCHANGED <<catalogVars, policyVars, viewVars, roleVars, dataVars>>

\* ALTER TABLE ... DROP COLUMN fails when the column is missing; SQLite also
\* refuses to drop a UNIQUE column or a column that an index names.
DropColumnFails(fid) ==
    \/ field_rows[fid].sql_column_name \notin field_columns
    \/ is_sqlite /\ (field_rows[fid].is_unique \/ field_rows[fid].is_indexed)

hard_delete_field(fid, force) ==
    /\ IF ~field_rows[fid].present THEN
          FieldResponse("hard_delete_field", fid, "", force, "not_found", 0) /\ FieldCatalogUnchanged
       ELSE IF ~field_rows[fid].is_deleted /\ ~force THEN
          FieldResponse("hard_delete_field", fid, "", force, "validation_error", 0)
          /\ FieldCatalogUnchanged
       ELSE IF DropColumnFails(fid) THEN
          FieldResponse("hard_delete_field", fid, "", force, "db_error", 1)
          /\ FieldCatalogUnchanged
       ELSE
          /\ field_columns' = field_columns \ {field_rows[fid].sql_column_name}
          /\ field_rows' = [field_rows EXCEPT ![fid] = DroppedField]
          /\ field_ops' = Append(field_ops, FieldSchemaOp("drop_column", fid))
          /\ FieldResponse("hard_delete_field", fid, "", force, "ok", 1)
          /\ UNCHANGED field_aliases
    /\ UNCHANGED <<catalogVars, policyVars, viewVars, roleVars, dataVars>>

restore_field(fid) ==
    /\ IF ~field_rows[fid].present THEN
          FieldResponse("restore_field", fid, "", FALSE, "not_found", 0) /\ FieldCatalogUnchanged
       ELSE IF ~field_rows[fid].is_deleted THEN
          FieldResponse("restore_field", fid, "", FALSE, "validation_error", 0)
          /\ FieldCatalogUnchanged
       ELSE
          /\ field_rows' = [field_rows EXCEPT ![fid].is_deleted = FALSE,
                                              ![fid].deleted_at = 0]
          /\ field_ops' = Append(field_ops, FieldSchemaOp("restore_column", fid))
          /\ FieldResponse("restore_field", fid, "", FALSE, "ok", 0)
          /\ UNCHANGED <<field_columns, field_aliases>>
    /\ UNCHANGED <<catalogVars, policyVars, viewVars, roleVars, dataVars>>

is_safe_type_conversion(from_type, to_type) ==
    IF from_type = to_type THEN TRUE
    ELSE <<from_type, to_type>> \in SAFE_TYPE_CONVERSIONS

change_field_type(fid, new_type) ==
    /\ IF ~field_rows[fid].present THEN
          FieldResponse("change_field_type", fid, new_type, FALSE, "not_found", 0) /\ FieldCatalogUnchanged
       ELSE IF field_rows[fid].field_type = new_type THEN
          FieldResponse("change_field_type", fid, new_type, FALSE, "validation_error", 0)
          /\ FieldCatalogUnchanged
       ELSE IF ~is_safe_type_conversion(field_rows[fid].field_type, new_type) THEN
          FieldResponse("change_field_type", fid, new_type, FALSE, "validation_error", 0)
          /\ FieldCatalogUnchanged
       ELSE IF ~is_sqlite /\ field_rows[fid].sql_column_name \notin field_columns THEN
          FieldResponse("change_field_type", fid, new_type, FALSE, "db_error", 1)
          /\ FieldCatalogUnchanged
       ELSE
          /\ field_rows' = [field_rows EXCEPT ![fid].field_type = new_type]
          /\ field_ops' = Append(field_ops, FieldSchemaOp("change_column_type", fid))
          /\ FieldResponse("change_field_type", fid, new_type, FALSE, "ok", IF is_sqlite THEN 0 ELSE 1)
          /\ UNCHANGED <<field_columns, field_aliases>>
    /\ UNCHANGED <<catalogVars, policyVars, viewVars, roleVars, dataVars>>

\* DELETE /fields/{name} of the collections routes: the live row of that name.
delete_field(name) ==
    /\ IF \A f \in FieldsNamed(name) : field_rows[f].is_deleted THEN
          FieldResponse("delete_field", 0, name, FALSE, "not_found", 0) /\ FieldCatalogUnchanged
       ELSE \E f \in {g \in FieldsNamed(name) : ~field_rows[g].is_deleted} :
          IF field_rows[f].is_system THEN
             FieldResponse("delete_field", f, name, FALSE, "validation_error", 0)
             /\ FieldCatalogUnchanged
          ELSE
             /\ field_rows' = [field_rows EXCEPT ![f].is_deleted = TRUE,
                                                 ![f].deleted_at = field_nreq + 1]
             /\ FieldResponse("delete_field", f, name, FALSE, "ok", 0)
             /\ UNCHANGED <<field_columns, field_aliases, field_ops>>
    /\ UNCHANGED <<catalogVars, policyVars, viewVars, roleVars, dataVars>>

(***************************************************************************)
(* Views over the _users collection (specification SpecViews):             *)
(* app/services/view_service.py and the record routes of                   *)
(* app/api/routes/data.py.  The field catalog is the one of                *)
(* create_users_collection and does not change here.                       *)
(***************************************************************************)
MAX_JOINS == 1
MAX_FILTERS == 20
MAX_ROWS == 1000
VALID_OPERATORS == {"=", "!=", ">", "<", ">=", "<=", "in", "not_in", "contains", "starts_with", "ends_with", "is_null", "is_not_null"}

MaxViews == 1           \* View ids are 1..MaxViews
MaxViewVersion == 3     \* a view is updated up to this version

ViewIds == 1..MaxViews

\* Row counts of the _users table: a handful of rows, and more than MAX_ROWS.
UsersRowCounts == {2, MAX_ROWS + 500}

FilterDef(field, operator, is_param, param_name) == [field |-> field, operator |-> operator, is_param |-> is_param, param_name |-> param_name]
SortDef(field, desc, is_param, param_name) == [field |-> field, desc |-> desc, is_param |-> is_param, param_name |-> param_name]
ParamDef(name, type) == [name |-> name, type |-> type]

\* An optional integer of a request body (limit: int | None).
NoInt == [given |-> FALSE, value |-> 0]
SomeInt(n) == [given |-> TRUE, value |-> n]

\* An optional list of a PATCH body: "is not None" and the list.
NotGiven == [given |-> FALSE, value |-> <<>>]
Given(seq) == [given |-> TRUE, value |-> seq]

\* ViewCreate payloads.  "Orders" is not a slug and is no column of the table;
\* "like" is no operator; "missing" is no collection of the project.
ViewCreate(name, base, projection, filters, sorts, joins, params_schema, default_limit, max_limit) == [name |-> name, base_collection_id |-> base, projection |-> projection, filters |-> filters, sorts |-> sorts, joins |-> joins, params_schema |-> params_schema, default_limit |-> default_limit, max_limit |-> max_limit]

ViewCreateInputs ==
    {ViewCreate("report", "_users", <<>>, <<>>,
                <<SortDef("email", FALSE, TRUE, "sort_field")>>, <<>>,
                <<ParamDef("n", "limit")>>, 100, 1000),
     ViewCreate("report", "_users", <<"email", "password_hash">>,
                <<FilterDef("email", "contains", FALSE, None)>>, <<>>, <<>>, <<>>,
                2, 5000),
     ViewCreate("report", "_users", <<"Orders">>,
                <<FilterDef("Orders", "=", FALSE, None)>>,
                <<SortDef("Orders", TRUE, FALSE, None)>>, <<>>, <<>>, 100, 10),
     ViewCreate("Orders", "_users", <<>>, <<>>, <<>>, <<>>, <<>>, 100, 1000),
     ViewCreate("report", "missing", <<>>, <<>>, <<>>, <<>>, <<>>, 100, 1000),
     ViewCreate("report", "_users", <<>>,
                <<FilterDef("email", "like", FALSE, None)>>, <<>>, <<>>, <<>>,
                100, 1000)}

\* ViewUpdate payloads.
ViewUpdate(projection, filters, sorts, joins, params_schema) == [projection |-> projection, filters |-> filters, sorts |-> sorts, joins |-> joins, params_schema |-> params_schema]

ViewUpdateInputs ==
    {ViewUpdate(Given(<<"email">>), NotGiven, NotGiven, NotGiven, NotGiven),
     ViewUpdate(Given(<<>>), Given(<<>>), NotGiven, NotGiven, NotGiven),
     ViewUpdate(NotGiven, NotGiven, NotGiven, NotGiven, NotGiven),
     ViewUpdate(NotGiven, Given(<<FilterDef("email", "like", FALSE, None)>>),
                NotGiven, NotGiven, NotGiven),
     ViewUpdate(Given(<<"email">>), NotGiven, NotGiven,
                Given(<<"orders", "teams">>), NotGiven)}

\* ViewExecuteRequest: params (a dict, here its string and its integer
\* entries) and limit.
NoParams == [strs |-> <<>>, ints |-> <<>>]
ExecuteParams ==
    {NoParams,
     [strs |-> [k \in {"sort_field"} |-> "Orders"], ints |-> <<>>],
     [strs |-> <<>>, ints |-> [k \in {"n"} |-> -1]],
     [strs |-> <<>>, ints |-> [k \in {"n"} |-> 5000]]}
ExecuteLimits == {NoInt, SomeInt(-1), SomeInt(0), SomeInt(1), SomeInt(5000)}

\* "if params": an empty dict is falsy.
ParamsGiven(params) == DOMAIN params.strs # {} \/ DOMAIN params.ints # {}

NoView == [present |-> FALSE]

View(name, base, projection, filters, sorts, joins, params_schema, default_limit, max_limit, version, is_active) == [present |-> TRUE, name |-> name, base_collection_id |-> base, projection |-> projection, filters |-> filters, sorts |-> sorts, joins |-> joins, params_schema |-> params_schema, default_limit |-> default_limit, max_limit |-> max_limit, version |-> version, is_active |-> is_active]

ViewVersion(vid, view) == [view_id |-> vid, version |-> view.version, projection |-> view.projection, filters |-> view.filters, sorts |-> view.sorts, joins |-> view.joins, params_schema |-> view.params_schema]

NoViewResult == [op |-> "none", outcome |-> "none", view_id |-> 0, columns |-> {}, identifiers |-> {}, requested |-> NoInt, rows |-> 0]

ViewResponse(op, outcome, vid, cols, identifiers, requested, rows) ==
    view_result' = [op |-> op, outcome |-> outcome, view_id |-> vid,
                    columns |-> cols, identifiers |-> identifiers,
                    requested |-> requested, rows |-> rows]

ViewError(op, outcome, vid) ==
    /\ ViewResponse(op, outcome, vid, {}, {}, NoInt, 0)
    /\ UNCHANGED <<views, view_versions>>

\* No view has been created.
InitViewCatalog ==
    /\ views = [v \in ViewIds |-> NoView]
    /\ view_versions = {}
    /\ view_result = NoViewResult

Min(a, b) == IF a <= b THEN a ELSE b

\* get_view: the active view of that name.
get_view(name) ==
    {v \in ViewIds : views[v].present /\ views[v].name = name /\ views[v].is_active}

NewViewIds == {v \in ViewIds : ~views[v].present}
NewViewId == CHOOSE v \in NewViewIds : \A w \in NewViewIds : v <= w

_validate_filters(filters) ==
    \A i \in DOMAIN filters : filters[i].operator \in VALID_OPERATORS

create_view(payload) ==
    /\ NewViewIds # {}
    /\ IF ~validate_slug(payload.name) THEN
          ViewError("create_view", "validation_error", 0)
       ELSE IF get_view(payload.name) # {} THEN
          ViewError("create_view", "validation_error", 0)
       ELSE IF payload.base_collection_id # "_users" THEN
          ViewError("create_view", "validation_error", 0)
       ELSE IF Len(payload.filters) > MAX_FILTERS THEN
          ViewError("create_view", "validation_error", 0)
       ELSE IF Len(payload.joins) > MAX_JOINS THEN
          ViewError("create_view", "validation_error", 0)
       ELSE IF ~_validate_filters(payload.filters) THEN
          ViewError("create_view", "validation_error", 0)
       ELSE
          LET view == View(payload.name, payload.base_collection_id,
                           payload.projection, payload.filters, payload.sorts,
                           payload.joins, payload.params_schema,
                           Min(payload.default_limit, MAX_ROWS),
                           Min(payload.max_limit, MAX_ROWS), 1, TRUE)
          IN  /\ views' = [views EXCEPT ![NewViewId] = view]
              /\ view_versions' = view_versions \cup {ViewVersion(NewViewId, view)}
              /\ ViewResponse("create_view", "ok", NewViewId, {}, {}, NoInt, 0)
    /\ UNCHANGED <<catalogVars, policyVars, fieldVars, roleVars, users_rows, dataVars>>

\* view.version += 1
NextVersionUnchanged(view) == view.version
NextVersion(view) == view.version + 1

\* "if x is not None: view.x_json = json.dumps(x) if x else None"
Updated(old, new) == IF new.given THEN new.value ELSE old

\* The route hands filters, sorts and joins on only when the list is not
\* empty ("... if request.filters else None").
NonEmptyOrNone(x) == IF x.given /\ x.value # <<>> THEN x ELSE NotGiven

update_view(name, payload) ==
    /\ \A v \in get_view(name) : views[v].version < MaxViewVersion
    /\ IF get_view(name) = {} THEN
          ViewError("update_view", "not_found", 0)
       ELSE \E vid \in get_view(name) :
          IF Len(payload.filters.value) > MAX_FILTERS THEN
             ViewError("update_view", "validation_error", vid)
          ELSE IF Len(payload.joins.value) > MAX_JOINS THEN
             ViewError("update_view", "validation_error", vid)
          ELSE IF ~_validate_filters(payload.filters.value) THEN
             ViewError("update_view", "validation_error", vid)
          ELSE
             LET old == views[vid]
                 view == [old EXCEPT
                            !.version = NextVersion(old),
                            !.projection = Updated(old.projection, payload.projection),
                            !.filters = Updated(old.filters, NonEmptyOrNone(payload.filters)),
                            !.sorts = Updated(old.sorts, NonEmptyOrNone(payload.sorts)),
                            !.joins = Updated(old.joins, NonEmptyOrNone(payload.joins)),
                            !.params_schema = Updated(old.params_schema, payload.params_schema)]
             IN  /\ views' = [views EXCEPT ![vid] = view]
                 /\ view_versions' = view_versions \cup {ViewVersion(vid, view)}
                 /\ ViewResponse("update_view", "ok", vid, {}, {}, NoInt, 0)
    /\ UNCHANGED <<catalogVars, policyVars, fieldVars, roleVars, users_rows, dataVars>>

delete_view(name) ==
    /\ IF get_view(name) = {} THEN
          ViewError("delete_view", "not_found", 0)
       ELSE \E vid \in get_view(name) :
          /\ views' = [views EXCEPT ![vid].is_active = FALSE]
          /\ ViewResponse("delete_view", "ok", vid, {}, {}, NoInt, 0)
          /\ UNCHANGED view_versions
    /\ UNCHANGED <<catalogVars, policyVars, fieldVars, roleVars, users_rows, dataVars>>

\* get_view_versions: the rows of one view.
get_view_versions(vid) == {row \in view_versions : row.view_id = vid}

\* projection = json.loads(view.projection_json) if view.projection_json else ["*"]
Projection(view) == IF view.projection = <<>> THEN <<"*">> ELSE view.projection

\* The field a SortDef sorts by: params.get(param_name, field) for a
\* parameterized sort.
SortField(s, params) ==
    IF s.is_param /\ ParamsGiven(params) /\ s.param_name \in DOMAIN params.strs
    THEN params.strs[s.param_name]
    ELSE s.field

\* The sorts that pass "projection == ['*'] or sort_field in valid_fields or
\* sort_field in system_fields".
OrderFields(view, params) ==
    {SortField(view.sorts[i], params) : i \in
        {j \in DOMAIN view.sorts :
            LET sort_field == SortField(view.sorts[j], params)
            IN  /\ sort_field # ""
                /\ \/ Projection(view) = <<"*">>
                   \/ sort_field \in SeqRange(Projection(view))
                   \/ sort_field \in {"id", "created_at", "updated_at"}}}

\* Every identifier that execute_view writes into the text of the statement.
InterpolatedIdentifiers(view, params) ==
    (IF Projection(view) = <<"*">> THEN {} ELSE SeqRange(Projection(view)))
    \cup {view.filters[i].field : i \in DOMAIN view.filters}
    \cup OrderFields(view, params)

\* The value of the last params_schema entry of type "limit".
ParamLimit(view, params) ==
    LET limits == {i \in DOMAIN view.params_schema :
                      view.params_schema[i].type = "limit"}
        last == CHOOSE i \in limits : \A j \in limits : j <= i
    IN  IF limits = {} \/ ~ParamsGiven(params) THEN NoInt
        ELSE IF view.params_schema[last].name \in DOMAIN params.ints
             THEN SomeInt(params.ints[view.params_schema[last].name])
             ELSE NoInt

FinalLimit(view, params, limit) ==
    IF ParamLimit(view, params).given THEN ParamLimit(view, params) ELSE limit

\* min(final_limit or view.default_limit, view.max_limit, MAX_ROWS)
EffectiveLimit(view, final_limit) ==
    Min(Min(IF ~final_limit.given \/ final_limit.value = 0 THEN view.default_limit
            ELSE final_limit.value,
            view.max_limit), MAX_ROWS)

\* Physical columns of the table of the base collection.
TableColumns == field_columns

\* The statement fails on PostgreSQL when it names a column the table does
\* not have or when LIMIT is negative; SQLite reads an unknown quoted
\* identifier as a string literal and a negative LIMIT as no limit.
StatementFails(view, params, limit) ==
    /\ ~is_sqlite
    /\ \/ InterpolatedIdentifiers(view, params) \ TableColumns # {}
       \/ EffectiveLimit(view, FinalLimit(view, params, limit)) < 0

RowsReturned(matching, effective_limit) ==
    IF effective_limit < 0 THEN matching ELSE Min(matching, effective_limit)

execute_view(name, params, limit) ==
    /\ IF get_view(name) = {} THEN
          ViewError("execute_view", "not_found", 0)
       ELSE \E vid \in get_view(name) :
          IF StatementFails(views[vid], params, limit) THEN
             /\ ViewResponse("execute_view", "db_error", vid, {},
                   InterpolatedIdentifiers(views[vid], params),
                   FinalLimit(views[vid], params, limit), 0)
             /\ UNCHANGED <<views, view_versions>>
          ELSE \E matching \in (IF views[vid].filters = <<>> THEN {users_rows}
                                ELSE {0, users_rows}) :
             /\ ViewResponse("execute_view", "ok", vid,
                   IF Projection(views[vid]) = <<"*">> THEN TableColumns
                   ELSE SeqRange(Projection(views[vid])),
                   InterpolatedIdentifiers(views[vid], params),
                   FinalLimit(views[vid], params, limit),
                   RowsReturned(matching,
                       EffectiveLimit(views[vid], FinalLimit(views[vid], params, limit))))
             /\ UNCHANGED <<views, view_versions>>
    /\ UNCHANGED <<catalogVars, policyVars, fieldVars, roleVars, users_rows, dataVars>>

\* _get_hidden_fields of the record routes.
_get_hidden_fields ==
    {field_rows[f].sql_column_name : f \in
        {g \in PresentFields : field_rows[g].is_hidden /\ ~field_rows[g].is_deleted}}

_filter_hidden_fields(record, hidden_fields) ==
    IF hidden_fields = {} THEN record ELSE record \ hidden_fields

\* The record routes that answer with record data.
RecordRoutes == {"get_single_record", "list_collection_records",
                 "update_single_record"}

\* A record route answers: SELECT * (or RETURNING *) of the table, without
\* the hidden columns.
RecordResponse(route) ==
    /\ users_rows > 0
    /\ ViewResponse(route, "ok", 0, _filter_hidden_fields(TableColumns, _get_hidden_fields),
                    {}, NoInt, 1)
    /\ UNCHANGED <<views, view_versions>>
    /\ UNCHANGED <<catalogVars, policyVars, fieldVars, roleVars, users_rows, dataVars>>

\* GET /collections/{name}/fields: list_fields without include_hidden.
list_fields_endpoint ==
    /\ ViewResponse("list_fields", "ok", 0,
                    {field_rows[f].name : f \in list_fields(FALSE)}, {}, NoInt, 0)
    /\ UNCHANGED <<views, view_versions>>
    /\ UNCHANGED <<catalogVars, policyVars, fieldVars, roleVars, users_rows, dataVars>>

(***************************************************************************)
(* Roles of one project (specification SpecRoles): app/services/           *)
(* rbac_service.py.  A request first reads (the route's lookup and the     *)
(* handler's SELECTs) and later writes and commits; requests of two        *)
(* sessions interleave between the two steps.                              *)
(***************************************************************************)
MaxRoles == 5           \* Role ids are 1..MaxRoles
MaxRoleRequests == 3    \* role requests started in one run

RoleIds == 1..MaxRoles
RoleNames == {"editor", "member"}

Role(name, is_system, is_default) == [present |-> TRUE, deleted |-> FALSE, name |-> name, is_system |-> is_system, is_default |-> is_default]
NoRole == [present |-> FALSE, deleted |-> FALSE]
DeletedRole == [present |-> FALSE, deleted |-> TRUE]

\* default_roles of initialize_default_roles, in order.
default_roles ==
    <<Role("admin", TRUE, FALSE), Role("member", TRUE, TRUE),
      Role("viewer", TRUE, FALSE)>>

NoRoleRequest == [op |-> "none"]

\* A new project has no roles until POST /initialize or POST /roles.
InitRoleCatalog ==
    /\ role_rows = [r \in RoleIds |-> NoRole]
    /\ role_req = [s \in Sessions |-> NoRoleRequest]
    /\ role_nreq = 0

PresentRoles == {r \in RoleIds : role_rows[r].present}
RolesNamed(name) == {r \in PresentRoles : role_rows[r].name = name}
DefaultRoles == {r \in PresentRoles : role_rows[r].is_default}

UnusedRoleIds == {r \in RoleIds : ~role_rows[r].present /\ ~role_rows[r].deleted}

\* The n smallest unused ids, in order (uuid4 of each new Role).
RECURSIVE NewRoleIdsFrom(_, _)
NewRoleIdsFrom(unused, n) ==
    IF n = 0 THEN <<>>
    ELSE LET r == CHOOSE x \in unused : \A y \in unused : x <= y
         IN  <<r>> \o NewRoleIdsFrom(unused \ {r}, n - 1)

RoleRequestStarts(s) ==
    /\ role_req[s] = NoRoleRequest
    /\ role_nreq < MaxRoleRequests
    /\ role_nreq' = role_nreq + 1

\* The request was refused by the reads (409, 404 or 403).
RoleRefused(s) == UNCHANGED <<role_rows, role_req>>

create_role_reads(s, name, is_default) ==
    /\ RoleRequestStarts(s)
    /\ IF RolesNamed(name) # {} THEN RoleRefused(s)
       ELSE /\ role_req' = [role_req EXCEPT ![s] =
                  [op |-> "create_role", name |-> name, is_default |-> is_default,
                   unset |-> IF is_default THEN DefaultRoles ELSE {}]]
            /\ UNCHANGED role_rows
    /\ UNCHANGED <<catalogVars, policyVars, fieldVars, viewVars, dataVars>>

update_role_reads(s, rid, is_default) ==
    /\ RoleRequestStarts(s)
    /\ IF ~role_rows[rid].present THEN RoleRefused(s)
       ELSE IF role_rows[rid].is_system THEN RoleRefused(s)
       ELSE /\ role_req' = [role_req EXCEPT ![s] =
                  [op |-> "update_role", role_id |-> rid, is_default |-> is_default,
                   unset |-> IF is_default THEN DefaultRoles \ {rid} ELSE {}]]
            /\ UNCHANGED role_rows
    /\ UNCHANGED <<catalogVars, policyVars, fieldVars, viewVars, dataVars>>

delete_role_reads(s, rid) ==
    /\ RoleRequestStarts(s)
    /\ IF ~role_rows[rid].present THEN RoleRefused(s)
       ELSE IF role_rows[rid].is_system THEN RoleRefused(s)
       ELSE /\ role_req' = [role_req EXCEPT ![s] =
                  [op |-> "delete_role", role_id |-> rid]]
            /\ UNCHANGED role_rows
    /\ UNCHANGED <<catalogVars, policyVars, fieldVars, viewVars, dataVars>>

\* The default roles whose name no row has yet.
MissingDefaultRoles == {i \in DOMAIN default_roles : RolesNamed(default_roles[i].name) = {}}

initialize_default_roles_reads(s) ==
    /\ RoleRequestStarts(s)
    /\ role_req' = [role_req EXCEPT ![s] =
          [op |-> "initialize_default_roles", missing |-> MissingDefaultRoles]]
    /\ UNCHANGED role_rows
    /\ UNCHANGED <<catalogVars, policyVars, fieldVars, viewVars, dataVars>>

\* The flush of the commit fails: an UPDATE or DELETE of a row that another
\* request deleted meanwhile, or an INSERT of a name that uq_roles_project_name
\* already holds.
RoleFlushFails(r) ==
    CASE r.op = "create_role" ->
            \/ RolesNamed(r.name) # {}
            \/ \E d \in r.unset : ~role_rows[d].present
      [] r.op = "update_role" ->
            \/ ~role_rows[r.role_id].present
            \/ \E d \in r.unset : ~role_rows[d].present
      [] r.op = "delete_role" -> ~role_rows[r.role_id].present
      [] r.op = "initialize_default_roles" ->
            \E i \in r.missing : RolesNamed(default_roles[i].name) # {}

\* The rows after the writes of the request.
RolesAfterCommit(r) ==
    CASE r.op = "create_role" ->
            [x \in RoleIds |->
                IF x = NewRoleIdsFrom(UnusedRoleIds, 1)[1]
                THEN Role(r.name, FALSE, r.is_default)
                ELSE IF x \in r.unset THEN [role_rows[x] EXCEPT !.is_default = FALSE]
                ELSE role_rows[x]]
      [] r.op = "update_role" ->
            [x \in RoleIds |->
                IF x = r.role_id THEN [role_rows[x] EXCEPT !.is_default = r.is_default]
                ELSE IF x \in r.unset THEN [role_rows[x] EXCEPT !.is_default = FALSE]
                ELSE role_rows[x]]
      [] r.op = "delete_role" -> [role_rows EXCEPT ![r.role_id] = DeletedRole]
      [] r.op = "initialize_default_roles" ->
            LET order == CHOOSE seq \in Orderings(r.missing) :
                            \A i, j \in DOMAIN seq : i < j => seq[i] < seq[j]
                ids == NewRoleIdsFrom(UnusedRoleIds, Len(order))
            IN  [x \in RoleIds |->
                    IF \E k \in DOMAIN order : ids[k] = x
                    THEN default_roles[order[CHOOSE k \in DOMAIN order : ids[k] = x]]
                    ELSE role_rows[x]]

RoleIdsNeeded(r) ==
    CASE r.op = "create_role" -> 1
      [] r.op = "initialize_default_roles" -> Cardinality(r.missing)
      [] OTHER -> 0

\* db.commit() of the request, or the rollback of a failed flush.
role_commit(s) ==
    /\ role_req[s] # NoRoleRequest
    /\ Cardinality(UnusedRoleIds) >= RoleIdsNeeded(role_req[s])
    /\ role_rows' = IF RoleFlushFails(role_req[s]) THEN role_rows
                ELSE RolesAfterCommit(role_req[s])
    /\ role_req' = [role_req EXCEPT ![s] = NoRoleRequest]
    /\ UNCHANGED role_nreq
    /\ UNCHANGED <<catalogVars, policyVars, fieldVars, viewVars, dataVars>>

InitCatalog ==
    /\ is_sqlite \in BOOLEAN
    /\ collections = [c \in Cids |->
          IF c = 1 THEN [present |-> TRUE, name |-> "a",
                         sql_table_name |-> "a", is_active |-> TRUE,
                         is_system |-> FALSE]
          ELSE NoCollection]
    /\ fields = [c \in Cids |-> {}]
    /\ tables = {"a"}
    /\ columns = [n \in Names |-> {}]
    /\ aliases = <<>>
    /\ schema_ops = <<SchemaOp("create_schema", 0, "", ""),
                      SchemaOp("create_table", 1, "", "a")>>
    /\ schema_created = TRUE
    /\ now = 0
    /\ advisory = [k \in Cids |-> [holder |-> "none", count |-> 0]]
    /\ pc = [s \in Sessions |-> "idle"]
    /\ req = [s \in Sessions |-> NoRequest]
    /\ txn = [s \in Sessions |-> "none"]
    /\ last_read = NoRead
    /\ nreq = 0

Init ==
    /\ InitCatalog
    /\ policies = {}
    /\ decision = NoDecision
    /\ InitFieldCatalog
    /\ InitViewCatalog
    /\ users_rows = 0
    /\ InitRoleCatalog
    /\ InitData

\* The request is over: the handler returned or raised and the session closed.
Finish(s) ==
    /\ pc' = [pc EXCEPT ![s] = "idle"]
    /\ req' = [req EXCEPT ![s] = NoRequest]
    /\ txn' = [txn EXCEPT ![s] = "none"]

(***************************************************************************)
(* create_collection (collections.py): no lock is taken.                   *)
(***************************************************************************)
\* ensure_project_schema: logs create_schema and commits; on SQLite on every
\* call, on PostgreSQL when the namespace is absent.
OpsAfterEnsureSchema ==
    IF is_sqlite \/ ~schema_created
    THEN Append(schema_ops, SchemaOp("create_schema", 0, "", ""))
    ELSE schema_ops

CreateCollectionGuard(s, name) ==
    /\ pc[s] = "idle"
    /\ nreq < MaxRequests
    /\ name \notin RESERVED_COLLECTION_NAMES
    /\ validate_slug(name)
    /\ CollectionsNamed(name) = {}
    /\ FreeCids # {}
    /\ ~DdlBlocked(s, {name})

\* CREATE TABLE fails when the physical name is taken: the Collection row
\* is then rolled back, the create_schema entry was already committed.
CreateCollection(s, name) ==
    /\ CreateCollectionGuard(s, name)
    /\ collections' =
          IF name \in tables THEN collections
          ELSE [collections EXCEPT ![NewCid] =
                  [present |-> TRUE, name |-> name, sql_table_name |-> name,
                   is_active |-> TRUE, is_system |-> FALSE]]
    /\ tables' = tables \cup {name}
    /\ schema_ops' =
          IF name \in tables THEN OpsAfterEnsureSchema
          ELSE Append(OpsAfterEnsureSchema,
                      SchemaOp("create_table", NewCid, "", name))
    /\ schema_created' = TRUE
    /\ nreq' = nreq + 1
    /\ UNCHANGED <<is_sqlite, fields, columns, aliases, now, advisory, pc, req,
                   txn, last_read, policyVars, fieldVars, viewVars, roleVars, dataVars>>

(***************************************************************************)
(* rename_collection (route + service).                                    *)
(***************************************************************************)
\* The route loads the Collection row (get_collection_or_404) and calls the
\* service with that loaded object.
RouteRenameCollection(s, cid, new_name) ==
    /\ pc[s] = "idle"
    /\ nreq < MaxRequests
    /\ collections[cid].present /\ collections[cid].is_active
    /\ req' = [req EXCEPT ![s] =
            [op |-> "rename_collection", cid |-> cid, new_name |-> new_name,
             name |-> collections[cid].name,
             sql_table_name |-> collections[cid].sql_table_name,
             field |-> ""]]
    /\ pc' = [pc EXCEPT ![s] = "rename_start"]
    /\ nreq' = nreq + 1
    /\ UNCHANGED <<is_sqlite, collections, fields, tables, columns, aliases,
                   schema_ops, schema_created, now, advisory, txn, last_read, policyVars, fieldVars, viewVars, roleVars, dataVars>>

\* _acquire_advisory_lock: True on SQLite without locking anything.
_acquire_advisory_lock(s, cid) ==
    IF is_sqlite THEN TRUE ELSE PgTryAdvisoryLock(s, LockKey(cid))

AdvisoryAfterAcquire(s, cid) ==
    IF is_sqlite THEN advisory ELSE AdvisoryAfterLock(s, LockKey(cid))

\* _release_advisory_lock: nothing on SQLite; on PostgreSQL one more
\* statement on the session, which raises when the session's transaction
\* was aborted by a failed statement and not rolled back.
_release_advisory_lock(s, cid) ==
    IF is_sqlite THEN advisory
    ELSE IF txn[s] = "aborted" THEN advisory
    ELSE AdvisoryAfterUnlock(s, LockKey(cid))

RenameInvalidName(s) ==
    /\ pc[s] = "rename_start"
    /\ ~validate_slug(req[s].new_name)
    /\ Finish(s)
    /\ UNCHANGED <<is_sqlite, collections, fields, tables, columns, aliases,
                   schema_ops, schema_created, now, advisory, last_read, nreq,
                   policyVars, fieldVars, viewVars, roleVars, dataVars>>

RenameLockRefused(s) ==
    /\ pc[s] = "rename_start"
    /\ validate_slug(req[s].new_name)
    /\ ~_acquire_advisory_lock(s, req[s].cid)
    /\ Finish(s)
    /\ UNCHANGED <<is_sqlite, collections, fields, tables, columns, aliases,
                   schema_ops, schema_created, now, advisory, last_read, nreq,
                   policyVars, fieldVars, viewVars, roleVars, dataVars>>

RenameLock(s) ==
    /\ pc[s] = "rename_start"
    /\ validate_slug(req[s].new_name)
    /\ _acquire_advisory_lock(s, req[s].cid)
    /\ advisory' = AdvisoryAfterAcquire(s, req[s].cid)
    /\ pc' = [pc EXCEPT ![s] = "rename_locked"]
    /\ UNCHANGED <<is_sqlite, collections, fields, tables, columns, aliases,
                   schema_ops, schema_created, now, req, txn, last_read, nreq, policyVars, fieldVars, viewVars, roleVars, dataVars>>

\* ALTER TABLE <old_sql_table_name> RENAME TO <new_name>, with the names the
\* loaded object carries.
RenameDdlApplies(s) ==
    /\ req[s].sql_table_name \in tables
    /\ req[s].new_name \notin tables

\* The physical tables once the rename statement has taken effect.
RenamedTables(s) ==
    (tables \ {req[s].sql_table_name}) \cup {req[s].new_name}

RenamedColumns(s) ==
    [columns EXCEPT ![req[s].new_name] = columns[req[s].sql_table_name],
                    ![req[s].sql_table_name] = {}]

\* db.execute(rename_sql): on PostgreSQL the statement runs inside the
\* session's transaction and other sessions see the tables as committed
\* until db.commit(); on SQLite it is committed by itself.
TablesSeenAfterRenameStatement(s) ==
    IF is_sqlite THEN RenamedTables(s) ELSE tables

ColumnsSeenAfterRenameStatement(s) ==
    IF is_sqlite THEN RenamedColumns(s) ELSE columns

RenameExecuteDdl(s) ==
    /\ pc[s] = "rename_locked"
    /\ ~DdlBlocked(s, {req[s].sql_table_name, req[s].new_name})
    /\ RenameDdlApplies(s)
    /\ tables' = TablesSeenAfterRenameStatement(s)
    /\ columns' = ColumnsSeenAfterRenameStatement(s)
    /\ txn' = [txn EXCEPT ![s] = "pending"]
    /\ pc' = [pc EXCEPT ![s] = "rename_ddl_done"]
    /\ UNCHANGED <<is_sqlite, collections, fields, aliases,
                   schema_ops, schema_created, now, advisory, req, last_read, nreq, policyVars, fieldVars, viewVars, roleVars, dataVars>>

RenameDdlFails(s) ==
    /\ pc[s] = "rename_locked"
    /\ ~DdlBlocked(s, {req[s].sql_table_name, req[s].new_name})
    /\ ~RenameDdlApplies(s)
    /\ txn' = [txn EXCEPT ![s] = IF is_sqlite THEN "none" ELSE "aborted"]
    /\ pc' = [pc EXCEPT ![s] = "rename_finally"]
    /\ UNCHANGED <<is_sqlite, collections, fields, tables, columns, aliases,
                   schema_ops, schema_created, now, advisory, req, last_read,
                   nreq, policyVars, fieldVars, viewVars, roleVars, dataVars>>

\* Lines 93-121: the alias, the catalog update and the SchemaOp are added to
\* the session and db.commit() makes them and the DDL visible together.
RenameCommit(s) ==
    /\ pc[s] = "rename_ddl_done"
    /\ is_sqlite => ~DdlBlocked(s, {})
    /\ tables' = IF is_sqlite THEN tables ELSE RenamedTables(s)
    /\ columns' = IF is_sqlite THEN columns ELSE RenamedColumns(s)
    /\ aliases' = Append(aliases,
            [collection_id |-> req[s].cid, old_name |-> req[s].name,
             expires_at |-> now + ALIAS_GRACE_PERIOD_DAYS])
    /\ collections' = [collections EXCEPT
            ![req[s].cid].name = req[s].new_name,
            ![req[s].cid].sql_table_name = req[s].new_name]
    /\ schema_ops' = Append(schema_ops,
            SchemaOp("rename_table", req[s].cid, req[s].name, req[s].new_name))
    /\ txn' = [txn EXCEPT ![s] = "none"]
    /\ pc' = [pc EXCEPT ![s] = "rename_finally"]
    /\ UNCHANGED <<is_sqlite, fields, schema_created, now, advisory, req,
                   last_read, nreq, policyVars, fieldVars, viewVars, roleVars, dataVars>>

\* db.commit() raises: the transaction is rolled back as a whole.  When the
\* flush inside commit failed, the session refuses further statements until
\* rollback() is called ("aborted"); when COMMIT itself failed it is closed.
RenameCommitFails(s) ==
    /\ pc[s] = "rename_ddl_done"
    /\ \E t \in (IF is_sqlite THEN {"none"} ELSE {"none", "aborted"}) :
          txn' = [txn EXCEPT ![s] = t]
    /\ pc' = [pc EXCEPT ![s] = "rename_finally"]
    /\ UNCHANGED <<is_sqlite, collections, fields, tables, columns, aliases,
                   schema_ops, schema_created, now, advisory, req, last_read,
                   nreq, policyVars, fieldVars, viewVars, roleVars, dataVars>>

\* finally: _release_advisory_lock, then the call returns or raises.
RenameFinally(s) ==
    /\ pc[s] = "rename_finally"
    /\ advisory' = _release_advisory_lock(s, req[s].cid)
    /\ Finish(s)
    /\ UNCHANGED <<is_sqlite, collections, fields, tables, columns, aliases,
                   schema_ops, schema_created, now, last_read, nreq,
                   policyVars, fieldVars, viewVars, roleVars, dataVars>>

(***************************************************************************)
(* add_field (route + collections.add_field + add_column_to_table).        *)
(***************************************************************************)
\* The route loads the collection by name (get_collection).
RouteAddField(s, cid, fname) ==
    /\ pc[s] = "idle"
    /\ nreq < MaxRequests
    /\ collections[cid].present
    /\ req' = [req EXCEPT ![s] =
            [op |-> "add_field", cid |-> cid, new_name |-> "",
             name |-> collections[cid].name,
             sql_table_name |-> collections[cid].sql_table_name,
             field |-> fname]]
    /\ pc' = [pc EXCEPT ![s] = "add_start"]
    /\ nreq' = nreq + 1
    /\ UNCHANGED <<is_sqlite, collections, fields, tables, columns, aliases,
                   schema_ops, schema_created, now, advisory, txn, last_read, policyVars, fieldVars, viewVars, roleVars, dataVars>>

\* The catalog check rejects an existing field name before any DDL.
AddFieldDuplicate(s) ==
    /\ pc[s] = "add_start"
    /\ req[s].field \in fields[req[s].cid]
    /\ Finish(s)
    /\ UNCHANGED <<is_sqlite, collections, fields, tables, columns, aliases,
                   schema_ops, schema_created, now, advisory, last_read, nreq,
                   policyVars, fieldVars, viewVars, roleVars, dataVars>>

AddColumnApplies(s) ==
    /\ req[s].sql_table_name \in tables
    /\ req[s].field \notin columns[req[s].sql_table_name]

\* ALTER TABLE ... ADD COLUMN, issued without any advisory lock.
AddFieldExecuteDdl(s) ==
    /\ pc[s] = "add_start"
    /\ validate_slug(req[s].field)
    /\ req[s].field \notin fields[req[s].cid]
    /\ ~DdlBlocked(s, {req[s].sql_table_name})
    /\ AddColumnApplies(s)
    /\ txn' = [txn EXCEPT ![s] = "pending"]
    /\ pc' = [pc EXCEPT ![s] = "add_ddl_done"]
    /\ UNCHANGED <<is_sqlite, collections, fields, tables, columns, aliases,
                   schema_ops, schema_created, now, advisory, req, last_read, nreq, policyVars, fieldVars, viewVars, roleVars, dataVars>>

AddFieldDdlFails(s) ==
    /\ pc[s] = "add_start"
    /\ req[s].field \notin fields[req[s].cid]
    /\ ~DdlBlocked(s, {req[s].sql_table_name})
    /\ ~AddColumnApplies(s)
    /\ Finish(s)
    /\ UNCHANGED <<is_sqlite, collections, fields, tables, columns, aliases,
                   schema_ops, schema_created, now, advisory, last_read, nreq,
                   policyVars, fieldVars, viewVars, roleVars, dataVars>>

AddFieldCommit(s) ==
    /\ pc[s] = "add_ddl_done"
    /\ fields' = [fields EXCEPT ![req[s].cid] = @ \cup {req[s].field}]
    /\ columns' = [columns EXCEPT ![req[s].sql_table_name] =
                       @ \cup {req[s].field}]
    /\ schema_ops' = Append(schema_ops,
            SchemaOp("add_column", req[s].cid, "", req[s].field))
    /\ Finish(s)
    /\ UNCHANGED <<is_sqlite, collections, tables, aliases, schema_created,
                   now, advisory, last_read, nreq, policyVars, fieldVars, viewVars, roleVars, dataVars>>

AddFieldCommitFails(s) ==
    /\ pc[s] = "add_ddl_done"
    /\ Finish(s)
    /\ UNCHANGED <<is_sqlite, collections, fields, tables, columns, aliases,
                   schema_ops, schema_created, now, advisory, last_read, nreq,
                   policyVars, fieldVars, viewVars, roleVars, dataVars>>

(***************************************************************************)
(* The data and introspection routes: get_collection(name), then a query   *)
(* on the collection's physical table.                                     *)
(***************************************************************************)
\* get_collection: the Collection row with exactly this name, else 404.
get_collection(name) ==
    IF CollectionsNamed(name) = {} THEN {0} ELSE CollectionsNamed(name)

\* The collections that unexpired aliases of this old name point to.
LiveAliasTargets(name) ==
    {aliases[i].collection_id : i \in
        {j \in DOMAIN aliases :
            aliases[j].old_name = name /\ AliasResolves(aliases[j])}}

\* Sessions whose uncommitted DDL concerns collection c.
Racing(c) == {s \in Sessions : txn[s] = "pending" /\ req[s].cid = c}

DataRead(name, c) ==
    /\ c \in get_collection(name)
    /\ last_read' =
          [name |-> name, cid |-> c,
           status |-> IF c = 0 THEN "not_found"
                      ELSE IF collections[c].sql_table_name \in tables
                      THEN "ok" ELSE "error",
           racing |-> c # 0 /\ Racing(c) # {},
           alias_targets |-> LiveAliasTargets(name)]
    /\ UNCHANGED <<is_sqlite, collections, fields, tables, columns, aliases,
                   schema_ops, schema_created, now, advisory, pc, req, txn,
                   nreq, policyVars, fieldVars, viewVars, roleVars, dataVars>>

Tick ==
    /\ now + ClockStep <= MaxNow
    /\ now' = now + ClockStep
    /\ UNCHANGED <<is_sqlite, collections, fields, tables, columns, aliases,
                   schema_ops, schema_created, advisory, pc, req, txn, last_read, nreq, policyVars, fieldVars, viewVars, roleVars, dataVars>>

Next ==
    \/ \E s \in Sessions, name \in Names : CreateCollection(s, name)
    \/ \E s \in Sessions, cid \in Cids, new_name \in RequestNames :
            RouteRenameCollection(s, cid, new_name)
    \/ \E s \in Sessions : RenameInvalidName(s)
    \/ \E s \in Sessions : RenameLockRefused(s)
    \/ \E s \in Sessions : RenameLock(s)
    \/ \E s \in Sessions : RenameExecuteDdl(s)
    \/ \E s \in Sessions : RenameDdlFails(s)
    \/ \E s \in Sessions : RenameCommit(s)
    \/ \E s \in Sessions : RenameCommitFails(s)
    \/ \E s \in Sessions : RenameFinally(s)
    \/ \E s \in Sessions, cid \in Cids, fname \in FieldNames :
            RouteAddField(s, cid, fname)
    \/ \E s \in Sessions : AddFieldDuplicate(s)
    \/ \E s \in Sessions : AddFieldExecuteDdl(s)
    \/ \E s \in Sessions : AddFieldDdlFails(s)
    \/ \E s \in Sessions : AddFieldCommit(s)
    \/ \E s \in Sessions : AddFieldCommitFails(s)
    \/ \E name \in Names, c \in 0..MaxCollections : DataRead(name, c)
    \/ Tick

Spec == Init /\ [][Next]_vars

\* SpecSystemCollection: the project as create_users_collection leaves it,
\* with the _users collection (is_system) as its only collection, under the
\* same requests as Spec.
InitSystemCollection ==
    /\ is_sqlite \in BOOLEAN
    /\ collections = [c \in Cids |->
          IF c = 1 THEN [present |-> TRUE, name |-> "_users",
                         sql_table_name |-> "_users", is_active |-> TRUE,
                         is_system |-> TRUE]
          ELSE NoCollection]
    /\ fields = [c \in Cids |-> {}]
    /\ tables = {"_users"}
    /\ columns = [n \in Names \cup RESERVED_COLLECTION_NAMES |-> {}]
    /\ aliases = <<>>
    /\ schema_ops = <<SchemaOp("create_schema", 0, "", ""),
                      SchemaOp("create_table", 1, "", "_users")>>
    /\ schema_created = TRUE
    /\ now = 0
    /\ advisory = [k \in Cids |-> [holder |-> "none", count |-> 0]]
    /\ pc = [s \in Sessions |-> "idle"]
    /\ req = [s \in Sessions |-> NoRequest]
    /\ txn = [s \in Sessions |-> "none"]
    /\ last_read = NoRead
    /\ nreq = 0
    /\ policies = {}
    /\ decision = NoDecision
    /\ InitFieldCatalog
    /\ InitViewCatalog
    /\ users_rows = 0
    /\ InitRoleCatalog
    /\ InitData

SpecSystemCollection == InitSystemCollection /\ [][Next]_vars

\* SpecPolicy: two collections exist; policies are created, switched on and
\* off and deleted, and permissions are checked.
InitPolicy ==
    /\ is_sqlite = FALSE
    /\ collections = [c \in Cids |->
          IF c = 1 THEN [present |-> TRUE, name |-> "a",
                         sql_table_name |-> "a", is_active |-> TRUE,
                         is_system |-> FALSE]
          ELSE IF c = 2 THEN [present |-> TRUE, name |-> "b",
                              sql_table_name |-> "b", is_active |-> TRUE,
                              is_system |-> FALSE]
          ELSE NoCollection]
    /\ fields = [c \in Cids |-> {}]
    /\ tables = {"a", "b"}
    /\ columns = [n \in Names |-> {}]
    /\ aliases = <<>>
    /\ schema_ops = <<SchemaOp("create_schema", 0, "", ""),
                      SchemaOp("create_table", 1, "", "a"),
                      SchemaOp("create_table", 2, "", "b")>>
    /\ schema_created = TRUE
    /\ now = 0
    /\ advisory = [k \in Cids |-> [holder |-> "none", count |-> 0]]
    /\ pc = [s \in Sessions |-> "idle"]
    /\ req = [s \in Sessions |-> NoRequest]
    /\ txn = [s \in Sessions |-> "none"]
    /\ last_read = NoRead
    /\ nreq = 0
    /\ policies = {}
    /\ decision = NoDecision
    /\ InitFieldCatalog
    /\ InitViewCatalog
    /\ users_rows = 0
    /\ InitRoleCatalog
    /\ InitData

NextPolicy ==
    \/ \E c \in Cids, row \in PolicyInputs : create_policy(c, row)
    \/ \E policy \in PolicyRows, is_active \in BOOLEAN :
          update_policy(policy, is_active)
    \/ \E policy \in PolicyRows : delete_policy(policy)
    \/ \E c \in Cids, action \in CheckedActions, principal \in Principals,
          record \in Records : CheckPolicy(c, action, principal, record)

SpecPolicy == InitPolicy /\ [][NextPolicy]_vars

\* SpecFields: the _users collection of one project; field requests are
\* served one at a time.
InitFields ==
    /\ InitCatalog
    /\ policies = {}
    /\ decision = NoDecision
    /\ InitFieldCatalog
    /\ InitViewCatalog
    /\ users_rows = 0
    /\ InitRoleCatalog
    /\ InitData

NextFields ==
    \/ \E name \in FieldRequestNames, field_type \in AddFieldTypes :
          add_field(name, field_type)
    \/ \E name \in FieldRequestNames : create_relation_field(name)
    \/ \E fid \in FieldIds, new_name \in FieldRequestNames : rename_field(fid, new_name)
    \/ \E fid \in FieldIds : soft_delete_field(fid)
    \/ \E fid \in FieldIds, force \in BOOLEAN : hard_delete_field(fid, force)
    \/ \E fid \in FieldIds : restore_field(fid)
    \/ \E fid \in FieldIds, new_type \in NewTypes : change_field_type(fid, new_type)
    \/ \E name \in FieldRequestNames : delete_field(name)

SpecFields == InitFields /\ [][NextFields]_vars

\* SpecViews: views over the _users collection are created, updated, deleted
\* and executed, records are read and fields are listed.
ViewRequestNames == ViewNames \cup {"nothing"}

InitViews ==
    /\ InitCatalog
    /\ policies = {}
    /\ decision = NoDecision
    /\ InitFieldCatalog
    /\ InitViewCatalog
    /\ users_rows \in UsersRowCounts
    /\ InitRoleCatalog
    /\ InitData

NextViews ==
    \/ \E payload \in ViewCreateInputs : create_view(payload)
    \/ \E name \in ViewRequestNames, payload \in ViewUpdateInputs :
          update_view(name, payload)
    \/ \E name \in ViewRequestNames : delete_view(name)
    \/ \E name \in ViewRequestNames, params \in ExecuteParams, limit \in ExecuteLimits :
          execute_view(name, params, limit)
    \/ \E route \in RecordRoutes : RecordResponse(route)
    \/ list_fields_endpoint

SpecViews == InitViews /\ [][NextViews]_vars

\* SpecViewVersions: the definition requests alone, for the version history.
NextViewVersions ==
    \/ \E payload \in ViewCreateInputs : create_view(payload)
    \/ \E name \in ViewRequestNames, payload \in ViewUpdateInputs :
          update_view(name, payload)
    \/ \E name \in ViewRequestNames : delete_view(name)

SpecViewVersions == InitViews /\ [][NextViewVersions]_vars

\* SpecRoles: two sessions serve role requests of one project.
NextRoles ==
    \/ \E s \in Sessions, name \in RoleNames, is_default \in BOOLEAN :
          create_role_reads(s, name, is_default)
    \/ \E s \in Sessions, rid \in RoleIds, is_default \in BOOLEAN :
          update_role_reads(s, rid, is_default)
    \/ \E s \in Sessions, rid \in RoleIds : delete_role_reads(s, rid)
    \/ \E s \in Sessions : initialize_default_roles_reads(s)
    \/ \E s \in Sessions : role_commit(s)

SpecRoles == Init /\ [][NextRoles]_vars

\* Specification SpecConditions: condition trees evaluated for drawn inputs.
InitConditions ==
    /\ InitCatalog
    /\ policies = {}
    /\ decision = NoDecision
    /\ InitFieldCatalog
    /\ InitViewCatalog
    /\ users_rows = 0
    /\ InitRoleCatalog
    /\ app_user_roles = {}
    /\ evaluation \in ConditionEvaluations
    /\ records = <<>>
    /\ record_result = NoRecordResult

NextConditions == EvaluateCondition

SpecConditions == InitConditions /\ [][NextConditions]_vars

\* SpecRoleGate: two collections and the roles "editor" and "member" exist;
\* policies with and without allowed_roles are created, roles are assigned
\* to and removed from the app users, and permissions are checked.
RoleGatePolicyInputs ==
    {row \in PolicyInputs :
        /\ row.action = "read"
        /\ row.condition = NoCondition
        /\ \/ row.allowed_roles # <<>>
           \/ (row.effect = "allow" /\ row.priority = 1
                 /\ "app_user" \in SeqRange(row.allowed_principals))}

RoleGateUserInputs == AppUserIds \cup {"u9"}

InitRoleGate ==
    /\ is_sqlite = FALSE
    /\ collections = [c \in Cids |->
          IF c = 1 THEN [present |-> TRUE, name |-> "a",
                         sql_table_name |-> "a", is_active |-> TRUE,
                         is_system |-> FALSE]
          ELSE IF c = 2 THEN [present |-> TRUE, name |-> "b",
                              sql_table_name |-> "b", is_active |-> TRUE,
                              is_system |-> FALSE]
          ELSE NoCollection]
    /\ fields = [c \in Cids |-> {}]
    /\ tables = {"a", "b"}
    /\ columns = [n \in Names |-> {}]
    /\ aliases = <<>>
    /\ schema_ops = <<SchemaOp("create_schema", 0, "", ""),
                      SchemaOp("create_table", 1, "", "a"),
                      SchemaOp("create_table", 2, "", "b")>>
    /\ schema_created = TRUE
    /\ now = 0
    /\ advisory = [k \in Cids |-> [holder |-> "none", count |-> 0]]
    /\ pc = [s \in Sessions |-> "idle"]
    /\ req = [s \in Sessions |-> NoRequest]
    /\ txn = [s \in Sessions |-> "none"]
    /\ last_read = NoRead
    /\ nreq = 0
    /\ policies = {}
    /\ decision = NoDecision
    /\ InitFieldCatalog
    /\ InitViewCatalog
    /\ users_rows = 0
    /\ role_rows = [r \in RoleIds |->
          IF r = 1 THEN Role("editor", FALSE, FALSE)
          ELSE IF r = 2 THEN Role("member", TRUE, TRUE)
          ELSE NoRole]
    /\ role_req = [s \in Sessions |-> NoRoleRequest]
    /\ role_nreq = 0
    /\ InitData

NextRoleGate ==
    \/ \E c \in Cids, row \in RoleGatePolicyInputs : create_policy(c, row)
    \/ \E uid \in RoleGateUserInputs, role_id \in RoleIds :
          assign_roles_to_user(uid, role_id)
    \/ \E uid \in RoleGateUserInputs, role_id \in RoleIds :
          remove_role_from_user(uid, role_id)
    \/ \E c \in Cids, principal \in Principals :
          CheckPolicy(c, "read", principal, NoRecord)

SpecRoleGate == InitRoleGate /\ [][NextRoleGate]_vars

(***************************************************************************)
(* Records (api/routes/data.py, services/crud_service.py): specification   *)
(* SpecRecords has one collection "a" with the int field "price"; policies *)
(* are created and deleted, records are created, listed with query-string  *)
(* filters and read one by one.                                            *)
(***************************************************************************)
MaxRecords == 3

\* A Python or SQL value: a str, an int or None/NULL.
StrValue(s) == [t |-> "str", s |-> s, n |-> 0]
IntValue(n) == [t |-> "int", s |-> "", n |-> n]
NullValue == [t |-> "null", s |-> "", n |-> 0]

\* The decimal strings that requests of the model carry, and their numbers.
IntOfString == ("50" :> 50) @@ ("100" :> 100) @@ ("300" :> 300) @@ ("500" :> 500) @@ ("600" :> 600)

\* int(value) inside try/except ValueError: pass (data.py 213-217).
IntOrUnchanged(value) ==
    IF value \in DOMAIN IntOfString THEN IntValue(IntOfString[value]) ELSE StrValue(value)

\* The text values of the model in the order SQL compares text.
TextOrder == <<"100", "300", "50", "500", "600", "colour", "price__foo", "red", "u1", "u2">>
TextRank(text) == CHOOSE i \in DOMAIN TextOrder : TextOrder[i] = text

\* A row of the collection's table (create_collection_table): id, the
\* column of the field "price" and created_by_app_user_id.
DataRow(id, price, created_by_app_user_id) ==
    [id |-> id, price |-> price, created_by_app_user_id |-> created_by_app_user_id]

\* The record dict handed to the policy check.
RecordOf(row) ==
    [is_none |-> FALSE, created_by_app_user_id |-> row.created_by_app_user_id,
     status |-> None]

\* A query-string parameter.  A key is held as its parts between "__":
\* <<"price", "gte">> is the key price__gte.
Param(key, value) == [key |-> key, value |-> value]

RECURSIVE JoinKey(_)
JoinKey(key) ==
    IF Len(key) = 1 THEN key[1]
    ELSE JoinKey(SubSeq(key, 1, Len(key) - 1)) \o "__" \o key[Len(key)]

\* dict[key] = value: an existing key keeps its place and takes the value.
DictSet(d, key, value) ==
    IF \E i \in DOMAIN d : d[i].key = key
    THEN [i \in DOMAIN d |-> IF d[i].key = key THEN Param(key, value) ELSE d[i]]
    ELSE Append(d, Param(key, value))

system_columns == {"created_by_user_id", "created_by_app_user_id", "id", "created_at", "updated_at"}

\* field.field_type of the catalog fields of the collection.
field_type(name) == IF name = "price" THEN "int" ELSE "text"

\* data.py 191-234: the loop over request.query_params.
RECURSIVE ExtractFilters(_, _)
ExtractFilters(filters, query_params) ==
    IF query_params = <<>> THEN filters
    ELSE LET key == Head(query_params).key
             value == Head(query_params).value
             base_field == IF Len(key) >= 2 THEN JoinKey(SubSeq(key, 1, Len(key) - 1))
                           ELSE key[1]
             operator == IF Len(key) >= 2 THEN key[Len(key)] ELSE "eq"
         IN  IF base_field \in fields[1]
             THEN LET column_name == base_field
                      converted == IF operator = "eq" /\ field_type(base_field) = "int"
                                   THEN IntOrUnchanged(value) ELSE StrValue(value)
                  IN  ExtractFilters(
                          DictSet(filters,
                                  IF operator # "eq" THEN <<column_name, operator>>
                                  ELSE <<column_name>>,
                                  converted),
                          Tail(query_params))
             ELSE IF base_field \in system_columns
             THEN ExtractFilters(
                      DictSet(filters,
                              IF operator # "eq" THEN <<base_field, operator>>
                              ELSE <<base_field>>,
                              StrValue(value)),
                      Tail(query_params))
             ELSE ExtractFilters(filters, Tail(query_params))

\* The same loop answering 400 for a key that is neither a catalog field
\* nor a system column.
HasUnknownFilterField(query_params) ==
    \E i \in DOMAIN query_params :
        LET key == query_params[i].key
            base_field == IF Len(key) >= 2 THEN JoinKey(SubSeq(key, 1, Len(key) - 1))
                          ELSE key[1]
        IN  base_field \notin fields[1] \cup system_columns

\* data.py 183-186: the filters dict before the loop.
PrincipalFilters(principal) ==
    IF principal.type = "app_user" /\ principal.app_user # None
    THEN <<Param(<<"created_by_app_user_id">>, StrValue(principal.app_user))>>
    ELSE <<>>

FILTER_OPERATORS ==
    ("eq" :> "=") @@ ("neq" :> "!=") @@ ("gt" :> ">") @@ ("gte" :> ">=") @@
    ("lt" :> "<") @@ ("lte" :> "<=") @@ ("like" :> "LIKE") @@
    ("ilike" :> "ILIKE") @@ ("contains" :> "LIKE") @@ ("startswith" :> "LIKE") @@
    ("endswith" :> "LIKE") @@ ("in" :> "IN") @@ ("notin" :> "NOT IN") @@
    ("isnull" :> "IS NULL") @@ ("isnotnull" :> "IS NOT NULL")

_parse_filter_key(key) ==
    IF Len(key) >= 2 /\ key[Len(key)] \in DOMAIN FILTER_OPERATORS
    THEN [field_name |-> JoinKey(SubSeq(key, 1, Len(key) - 1)),
          operator |-> key[Len(key)]]
    ELSE [field_name |-> JoinKey(key), operator |-> "eq"]

\* Line 188: "field" sql_op :param (the requests of the model carry the
\* comparison operators only).
_build_filter_condition(field, operator, value) ==
    [field |-> field, sql_op |-> FILTER_OPERATORS[operator], param |-> value]

\* The columns of the collection's table.
RecordColumns == system_columns \cup fields[1]

ColumnValue(row, column) ==
    IF column = "id" THEN IntValue(row.id)
    ELSE IF column = "price" THEN IntValue(row.price)
    ELSE IF column = "created_by_app_user_id"
    THEN (IF row.created_by_app_user_id = None THEN NullValue
          ELSE StrValue(row.created_by_app_user_id))
    ELSE NullValue

\* SQLite gives a text parameter compared with an INTEGER column numeric
\* affinity; PostgreSQL reads the literal as an integer.
WithAffinity(column_value, param) ==
    IF column_value.t = "int" /\ param.t = "str" /\ param.s \in DOMAIN IntOfString
    THEN IntValue(IntOfString[param.s]) ELSE param

\* -1, 0 or 1: numbers before text, numbers by value, text by collation.
SqlOrder(a, b) ==
    LET x == IF a.t = "int" THEN a.n ELSE 1000 + TextRank(a.s)
        y == IF b.t = "int" THEN b.n ELSE 1000 + TextRank(b.s)
    IN  IF x < y THEN -1 ELSE IF x = y THEN 0 ELSE 1

\* The condition holds of the row.  SQLite reads a double-quoted name that
\* is no column as a string literal.
ConditionHolds(row, condition) ==
    LET left == IF condition.field \in RecordColumns
                THEN ColumnValue(row, condition.field)
                ELSE StrValue(condition.field)
        right == WithAffinity(left, condition.param)
        order == SqlOrder(left, right)
    IN  IF left.t = "null" \/ right.t = "null" THEN FALSE
        ELSE IF condition.sql_op = "=" THEN order = 0
        ELSE IF condition.sql_op = "!=" THEN order # 0
        ELSE IF condition.sql_op = ">" THEN order = 1
        ELSE IF condition.sql_op = ">=" THEN order >= 0
        ELSE IF condition.sql_op = "<" THEN order = -1
        ELSE IF condition.sql_op = "<=" THEN order <= 0
        ELSE FALSE

\* PostgreSQL refuses the statement: an unknown column, or text that is no
\* integer compared with an integer column.
FilterStatementFails(conditions) ==
    /\ ~is_sqlite
    /\ \E i \in DOMAIN conditions :
          \/ conditions[i].field \notin RecordColumns
          \/ /\ conditions[i].field \in {"id", "price"}
             /\ conditions[i].param.t = "str"
             /\ conditions[i].param.s \notin DOMAIN IntOfString

\* The rows in ORDER BY id DESC (ids are given in insertion order).
RECURSIVE Reversed(_)
Reversed(seq) == IF seq = <<>> THEN <<>> ELSE Append(Reversed(Tail(seq)), Head(seq))

\* A count without the WHERE clause.
count_records_unfiltered(filters) == [fails |-> FALSE, count |-> Len(records)]

\* list_records: SELECT * ... WHERE ... ORDER BY id DESC LIMIT :limit
\* OFFSET :offset.
list_records(filters, limit, offset) ==
    LET conditions == [i \in DOMAIN filters |->
            LET parsed == _parse_filter_key(filters[i].key)
            IN  _build_filter_condition(parsed.field_name, parsed.operator,
                                        filters[i].value)]
        Selected(row) == \A i \in DOMAIN conditions : ConditionHolds(row, conditions[i])
        results == SelectSeq(Reversed(records), Selected)
        last == IF offset + limit < Len(results) THEN offset + limit ELSE Len(results)
    IN  [fails |-> FilterStatementFails(conditions),
         rows |-> SubSeq(results, offset + 1, last)]

\* count_records: SELECT COUNT(*) ... WHERE ...
count_records(filters) ==
    LET conditions == [i \in DOMAIN filters |->
            LET parsed == _parse_filter_key(filters[i].key)
            IN  _build_filter_condition(parsed.field_name, parsed.operator,
                                        filters[i].value)]
        Selected(row) == \A i \in DOMAIN conditions : ConditionHolds(row, conditions[i])
    IN  [fails |-> FilterStatementFails(conditions),
         count |-> Cardinality({i \in DOMAIN records : Selected(records[i])})]

\* _check_policy (data.py 52-62): the statuses the check may end in (200:
\* it returns; 500: check_permission_for_principal raised).
_check_policy(c, action, principal, record) ==
    {IF allowed THEN 200 ELSE IF principal.type = "anonymous" THEN 401 ELSE 403 :
        allowed \in check_permission_for_principal(c, action, principal, record)}
    \cup (IF check_permission_raises(c, action, principal, record) THEN {500} ELSE {})

NoRow == DataRow(0, 0, None)

\* POST /{collection_name} with the payload {price: price}.
create_record(principal, price) ==
    /\ collections[1].present
    /\ \E status \in _check_policy(1, "create", principal, NoRecord) :
          IF status # 200
          THEN /\ record_result' = [route |-> "create", principal |-> principal,
                                    status |-> status, record |-> NoRow]
               /\ UNCHANGED records
          ELSE /\ Len(records) < MaxRecords
               /\ LET result == DataRow(Len(records) + 1, price, principal.app_user)
                  IN  /\ records' = Append(records, result)
                      /\ record_result' = [route |-> "create", principal |-> principal,
                                           status |-> 201, record |-> result]
    /\ UNCHANGED <<catalogVars, policyVars, fieldVars, viewVars, roleVars,
                   app_user_roles, evaluation>>

\* A list request: limit and the filter parameters of the query string.
ListRequest(limit, query_params) == [limit |-> limit, query_params |-> query_params]

\* GET /{collection_name}.
list_collection_records(principal, request) ==
    /\ collections[1].present
    /\ \E status \in _check_policy(1, "list", principal, NoRecord) :
          IF status # 200
          THEN record_result' = [route |-> "list", principal |-> principal,
                                 status |-> status]
          ELSE LET filters == ExtractFilters(PrincipalFilters(principal),
                                             request.query_params)
                   listed == list_records(filters, request.limit, 0)
                   total == count_records(filters)
               IN  IF listed.fails \/ total.fails
                   THEN record_result' = [route |-> "list", principal |-> principal,
                                          request |-> request, status |-> 500,
                                          records |-> <<>>, total |-> 0]
                   ELSE record_result' = [route |-> "list", principal |-> principal,
                                          request |-> request, status |-> 200,
                                          records |-> listed.rows,
                                          total |-> total.count]
    /\ UNCHANGED <<catalogVars, policyVars, fieldVars, viewVars, roleVars,
                   app_user_roles, evaluation, records>>

\* GET /{collection_name}/{record_id}: get_record_by_id answers 404 for an
\* unknown id before the policy is checked against the record.  The result
\* keeps the row asked for and the policies the check ran against.
get_single_record(principal, record_id) ==
    /\ collections[1].present
    /\ IF record_id \notin DOMAIN records
       THEN record_result' = [route |-> "get", principal |-> principal,
                              status |-> 404, record |-> NoRow]
       ELSE LET record == records[record_id]
            IN  \E status \in _check_policy(1, "read", principal, RecordOf(record)) :
                   record_result' = [route |-> "get", principal |-> principal,
                                     status |-> status,
                                     record |-> IF status = 200 THEN record ELSE NoRow,
                                     target |-> record,
                                     checked_against |-> ActivePolicies(1)]
    /\ UNCHANGED <<catalogVars, policyVars, fieldVars, viewVars, roleVars,
                   app_user_roles, evaluation, records>>

\* The policies a tenant sets on the collection in SpecRecords.
OwnerReadPolicy ==
    PolicyRow("read", "allow", 0, <<"app_user">>, FALSE, <<>>,
              Cond("owner", "created_by_app_user_id", None, <<>>))

RecordPolicyInputs ==
    { OwnerReadPolicy,
      PolicyRow("create", "allow", 0, <<"app_user">>, FALSE, <<>>, NoCondition),
      PolicyRow("list", "allow", 0, <<"app_user", "api_key">>, FALSE, <<>>,
                NoCondition) }

ListRequests ==
    { ListRequest(100, <<>>),
      ListRequest(1, <<>>),
      ListRequest(100, <<Param(<<"price", "gte">>, "100"),
                         Param(<<"price", "lte">>, "500")>>),
      ListRequest(100, <<Param(<<"price">>, "300")>>),
      ListRequest(100, <<Param(<<"created_by_app_user_id">>, "u2")>>),
      ListRequest(100, <<Param(<<"colour">>, "red")>>),
      ListRequest(100, <<Param(<<"price", "foo">>, "100")>>) }

\* The create requests: a principal and the price of the payload.
CreateRequests ==
    {cr \in [principal : Principals, price : {50, 300, 600}] :
        \/ cr.principal.app_user = "u1" /\ cr.price \in {50, 300}
        \/ cr.principal.app_user = "u2" /\ cr.price \in {300, 600}
        \/ cr.principal.type = "anonymous" /\ cr.price = 50}
ReadPrincipals ==
    {p \in Principals : p.type \in {"api_key", "anonymous"} \/ p.app_user = "u1"}

InitRecords ==
    /\ is_sqlite = TRUE
    /\ collections = [c \in Cids |->
          IF c = 1 THEN [present |-> TRUE, name |-> "a",
                         sql_table_name |-> "a", is_active |-> TRUE,
                         is_system |-> FALSE]
          ELSE NoCollection]
    /\ fields = [c \in Cids |-> IF c = 1 THEN {"price"} ELSE {}]
    /\ tables = {"a"}
    /\ columns = [n \in Names |-> IF n = "a" THEN {"price"} ELSE {}]
    /\ aliases = <<>>
    /\ schema_ops = <<SchemaOp("create_schema", 0, "", ""),
                      SchemaOp("create_table", 1, "", "a")>>
    /\ schema_created = TRUE
    /\ now = 0
    /\ advisory = [k \in Cids |-> [holder |-> "none", count |-> 0]]
    /\ pc = [s \in Sessions |-> "idle"]
    /\ req = [s \in Sessions |-> NoRequest]
    /\ txn = [s \in Sessions |-> "none"]
    /\ last_read = NoRead
    /\ nreq = 0
    /\ policies = {}
    /\ decision = NoDecision
    /\ InitFieldCatalog
    /\ InitViewCatalog
    /\ users_rows = 0
    /\ InitRoleCatalog
    /\ InitData

NextRecords ==
    \/ \E row \in RecordPolicyInputs : create_policy(1, row)
    \/ \E policy \in policies : delete_policy(policy)
    \/ \E cr \in CreateRequests : create_record(cr.principal, cr.price)
    \/ \E principal \in ReadPrincipals, request \in ListRequests :
          list_collection_records(principal, request)
    \/ \E principal \in ReadPrincipals, record_id \in 1..MaxRecords :
          get_single_record(principal, record_id)

SpecRecords == InitRecords /\ [][NextRecords]_vars

(***************************************************************************)
(* Claims about renames, aliases and the lock (specification Spec).        *)
(***************************************************************************)

\* C1: after a successful rename of a collection from A to B, in every state
\* before the alias's expires_at both the collection's name and the old name
\* A resolve (resolve_collection_by_name_or_alias) to that collection; from
\* expires_at onwards A no longer resolves to it.
C1_AliasResolvesUntilExpiry ==
    \A i \in DOMAIN aliases :
        LET al == aliases[i]
            c == al.collection_id
        IN  /\ now < al.expires_at =>
                /\ ResolveOutcomes(al.old_name) = {c}
                /\ ResolveOutcomes(collections[c].name) = {c}
            /\ now >= al.expires_at => c \notin ResolveOutcomes(al.old_name)

\* The rename_table entries of the ledger for one collection, in order.
RenameOps(c) ==
    LET IsRename(o) == o.op_type = "rename_table" /\ o.collection_id = c
    IN  SelectSeq(schema_ops, IsRename)

\* C2: renames of one collection are totally ordered: of two successful
\* renames the later one operated on the already-renamed state (its old name
\* is the name the earlier one gave), so there are never two successful
\* renames of the same state, each with its own alias.
C2_RenamesSerialized ==
    \A c \in Cids :
        LET r == RenameOps(c)
        IN  \A k \in 1..(Len(r) - 1) : r[k + 1].old_name = r[k].new_name

\* A session is inside a structural change of its request's collection:
\* past the point where rename_collection takes the lock, or past add_field's
\* ALTER TABLE.
InStructuralChange(s) ==
    pc[s] \in {"rename_locked", "rename_ddl_done", "add_ddl_done"}

HoldsAdvisoryLock(s, c) == advisory[LockKey(c)].holder = s

\* C3: every schema-mutating operation holds the (tenant, collection) lock
\* when it touches physical DDL, and two structural changes of the same
\* collection are never in progress at the same time.
C3_DdlOnlyUnderLock ==
    /\ \A s \in Sessions :
          txn[s] = "pending" => HoldsAdvisoryLock(s, req[s].cid)
    /\ \A s, t \in Sessions :
          (s # t /\ InStructuralChange(s) /\ InStructuralChange(t))
              => req[s].cid # req[t].cid

\* C4: once a schema operation that acquired the lock has returned or raised
\* (normal return, DDL failure, commit failure), its session holds no lock.
C4_LockReleasedOnEveryExit ==
    \A s \in Sessions :
        pc[s] = "idle" => \A c \in Cids : ~HoldsAdvisoryLock(s, c)

\* What one step makes visible of a rename of collection c.
NameUpdated(c) ==
    /\ collections[c].present
    /\ \/ collections'[c].name # collections[c].name
       \/ collections'[c].sql_table_name # collections[c].sql_table_name

AliasWritten(c) ==
    /\ Len(aliases') = Len(aliases) + 1
    /\ aliases'[Len(aliases')].collection_id = c

RenameLogged(c) ==
    /\ Len(schema_ops') = Len(schema_ops) + 1
    /\ schema_ops'[Len(schema_ops')].op_type = "rename_table"
    /\ schema_ops'[Len(schema_ops')].collection_id = c

TableRenamed ==
    /\ tables \ tables' # {}
    /\ Cardinality(tables') = Cardinality(tables)

RenameVisibleAtOnce ==
    /\ \A c \in Cids :
          /\ NameUpdated(c) => (AliasWritten(c) /\ RenameLogged(c) /\ TableRenamed)
          /\ AliasWritten(c) => NameUpdated(c)
          /\ RenameLogged(c) => NameUpdated(c)
    /\ TableRenamed => \E c \in Cids : NameUpdated(c)
    /\ tables \ tables' # {} => TableRenamed

\* C5: the physical rename, the catalog name/physical-name update and the
\* alias write (with its ledger entry) become visible in one step or not at
\* all: no step shows one of them without the others.
C5_RenameAllOrNothing == [][RenameVisibleAtOnce]_vars

\* C10: a request that addresses a renamed collection by its old name,
\* while an alias of that name is unexpired, reaches the renamed collection.
C10_OldNameReachesRenamedObject ==
    last_read.status # "none" =>
        \A c \in last_read.alias_targets : last_read.cid = c

(***************************************************************************)
(* Claims about authorization (specification SpecPolicy).                  *)
(***************************************************************************)
\* The policy passes its full gate for the checked request.
PassesGate(policy) ==
    PolicyMatches(policy.row, decision.action, decision.principal,
                  decision.record)

CheckedNonAdmin ==
    decision.checked /\ decision.principal.type # "admin_user"

C7_FirstMatchByPriority ==
    (/\ CheckedNonAdmin
     /\ \E policy \in ActivePolicies(decision.collection) : PassesGate(policy))
        => \E policy \in ActivePolicies(decision.collection) :
              /\ PassesGate(policy)
              /\ \A other \in ActivePolicies(decision.collection) :
                    PassesGate(other) => other.row.priority <= policy.row.priority
              /\ decision.allowed = (policy.row.effect = "allow")

\* A matching deny of priority 1 wins over a matching allow of priority 0.
C7_Witness ==
    /\ CheckedNonAdmin
    /\ ~decision.allowed
    /\ \E hi, lo \in ActivePolicies(decision.collection) :
          /\ PassesGate(hi) /\ PassesGate(lo)
          /\ hi.row.priority > lo.row.priority
          /\ hi.row.effect = "deny" /\ lo.row.effect = "allow"

\* C8: an admin_user principal is allowed, whatever the policies are.
C8_AdminAlwaysAllowed ==
    (decision.checked /\ decision.principal.type = "admin_user")
        => decision.allowed

\* The admin is allowed although an active deny policy of the collection
\* names admin_user and passes its gate for the request.
C8_Witness ==
    /\ decision.checked
    /\ decision.principal.type = "admin_user"
    /\ decision.allowed
    /\ \E policy \in ActivePolicies(decision.collection) :
          /\ policy.row.effect = "deny"
          /\ "admin_user" \in SeqRange(policy.row.allowed_principals)
          /\ PassesGate(policy)

PoliciesOf(c) == {policy \in policies : policy.collection_id = c}

\* C9: with zero policies on the collection, admin_user and api_key are
\* allowed and app_user and anonymous are denied, for every action.
C9_ZeroPolicyDefaults ==
    (decision.checked /\ PoliciesOf(decision.collection) = {})
        => (decision.allowed
              <=> decision.principal.type \in {"admin_user", "api_key"})

\* An app_user is denied on a collection without policies while another
\* collection has a policy that would allow the same request.
C9_Witness ==
    /\ decision.checked
    /\ PoliciesOf(decision.collection) = {}
    /\ decision.principal.type = "app_user"
    /\ ~decision.allowed
    /\ \E policy \in policies :
          policy.is_active /\ policy.row.effect = "allow" /\ PassesGate(policy)

(***************************************************************************)
(* Claims about the field catalog (specification SpecFields).              *)
(***************************************************************************)
\* This step served a request of the given kind on a Field row that exists.
FieldRequestServed(op) ==
    /\ field_result'.n # field_result.n
    /\ field_result'.op = op
    /\ field_result'.field_id \in FieldIds
    /\ field_rows[field_result'.field_id].present

\* The hard delete of this step was refused and left the catalog, the table
\* and the ledger alone, or it removed the row and its column.
HardDeleteRefusedOrDone ==
    FieldRequestServed("hard_delete_field") =>
        LET fid == field_result'.field_id
            row == field_rows[fid]
        IN  IF ~row.is_deleted /\ ~field_result'.force
            THEN /\ field_result'.outcome = "validation_error"
                 /\ UNCHANGED <<field_rows, field_columns, field_aliases, field_ops>>
            ELSE /\ field_result'.outcome = "ok"
                 /\ ~field_rows'[fid].present
                 /\ row.sql_column_name \notin field_columns'
                 /\ fid \notin list_fields(TRUE)'

\* C11: hard_delete_field on a field that is not soft-deleted and without
\* force fails with a validation error and changes nothing; with force or
\* after a soft delete it succeeds: the column is dropped, the Field row is
\* removed and the field is absent from listings.
C11_HardDeleteNeedsSoftDeleteOrForce == [][HardDeleteRefusedOrDone]_vars

\* The request of this step on a system field was turned down: its catalog
\* row and its physical column are as before.
SystemFieldRequestRejected(op) ==
    (FieldRequestServed(op) /\ field_rows[field_result'.field_id].is_system) =>
        LET fid == field_result'.field_id
        IN  /\ field_result'.outcome # "ok"
            /\ field_rows'[fid] = field_rows[fid]
            /\ field_rows[fid].sql_column_name \in field_columns'

\* C12: a field with is_system = true can never be soft-deleted, hard-deleted
\* (with or without force) or type-changed: every such request is rejected
\* and the field's catalog row and physical column stay unchanged.
C12_SystemFieldsProtected ==
    [][\A op \in {"soft_delete_field", "hard_delete_field", "change_field_type"} :
            SystemFieldRequestRejected(op)]_vars

\* The type change of this step, asked for a pair of types outside the
\* whitelist, was refused before any statement was sent.
UnsafeTypeChangeRefused ==
    (/\ FieldRequestServed("change_field_type")
     /\ <<field_rows[field_result'.field_id].field_type, field_result'.arg>> \notin
            {<<"int", "float">>, <<"string", "text">>, <<"date", "datetime">>}) =>
        /\ field_result'.outcome = "validation_error"
        /\ field_result'.ddl = 0
        /\ field_rows' = field_rows
        /\ field_columns' = field_columns
        /\ field_ops' = field_ops

\* C13: change_field_type for any (current type, new type) pair outside the
\* whitelist {(int,float), (string,text), (date,datetime)} is rejected with a
\* validation error, issues zero DDL statements and leaves the field's
\* catalog type and the SchemaOp ledger unchanged.
C13_UnsafeTypeChangeRejected == [][UnsafeTypeChangeRefused]_vars

\* A type change outside the whitelist (string to int) was asked for and
\* refused.
C13_Witness ==
    /\ field_result.op = "change_field_type"
    /\ field_result.outcome = "validation_error"
    /\ field_result.field_id \in PresentFields
    /\ field_result.arg # field_rows[field_result.field_id].field_type
    /\ field_result.ddl = 0

\* Where a Field id stands in its lifecycle.
FieldStatus(row) ==
    IF row.present THEN (IF row.is_deleted THEN "soft_deleted" ELSE "active")
    ELSE IF row.dropped THEN "hard_deleted"
    ELSE "none"

\* The four assertions of the lifecycle about single requests: a second soft
\* delete fails, a restore of a field that is not soft-deleted fails, a
\* successful restore clears is_deleted and deleted_at, and no request moves
\* a hard-deleted field.
LifecycleRequests ==
    /\ FieldRequestServed("soft_delete_field") =>
          IF field_rows[field_result'.field_id].is_deleted
          THEN field_result'.outcome = "validation_error" /\ field_rows' = field_rows
          ELSE field_result'.outcome = "ok"
    /\ FieldRequestServed("restore_field") =>
          IF ~field_rows[field_result'.field_id].is_deleted
          THEN field_result'.outcome = "validation_error" /\ field_rows' = field_rows
          ELSE /\ field_result'.outcome = "ok"
               /\ field_rows'[field_result'.field_id].present
               /\ ~field_rows'[field_result'.field_id].is_deleted
               /\ field_rows'[field_result'.field_id].deleted_at = 0
    /\ \A f \in FieldIds :
          FieldStatus(field_rows[f]) = "hard_deleted" =>
              FieldStatus(field_rows'[f]) = "hard_deleted"

LifecycleEdges ==
    {<<"none", "active">>, <<"active", "soft_deleted">>,
     <<"soft_deleted", "active">>, <<"soft_deleted", "hard_deleted">>}

\* C14 as stated: a field follows the lifecycle active -> soft_deleted ->
\* (restore -> active | hard_deleted), hard_deleted terminal; a second soft
\* delete fails, a restore of a field that is not soft-deleted fails, a
\* successful restore leaves is_deleted false and deleted_at cleared, and
\* after hard delete no operation brings the field back.
C14_LifecycleAsStated ==
    [][/\ LifecycleRequests
       /\ \A f \in FieldIds :
             \/ FieldStatus(field_rows'[f]) = FieldStatus(field_rows[f])
             \/ <<FieldStatus(field_rows[f]), FieldStatus(field_rows'[f])>>
                    \in LifecycleEdges]_vars

\* C14 amended: the same lifecycle with one more edge, active -> hard_deleted,
\* taken only by a hard delete with force; everything else as stated.
C14_LifecycleWithForce ==
    [][/\ LifecycleRequests
       /\ \A f \in FieldIds :
             \/ FieldStatus(field_rows'[f]) = FieldStatus(field_rows[f])
             \/ <<FieldStatus(field_rows[f]), FieldStatus(field_rows'[f])>>
                    \in LifecycleEdges
             \/ /\ FieldStatus(field_rows[f]) = "active"
                /\ FieldStatus(field_rows'[f]) = "hard_deleted"
                /\ field_result'.op = "hard_delete_field"
                /\ field_result'.field_id = f
                /\ field_result'.force]_vars

\* A field was soft-deleted, restored (deleted_at cleared) and then removed
\* by a hard delete with force while active.
C14_Witness ==
    /\ field_result.op = "hard_delete_field"
    /\ field_result.force
    /\ field_result.outcome = "ok"
    /\ FieldStatus(field_rows[field_result.field_id]) = "hard_deleted"
    /\ Len(field_ops) = 4
    /\ field_ops[2] = FieldSchemaOp("soft_delete_column", field_result.field_id)
    /\ field_ops[3] = FieldSchemaOp("restore_column", field_result.field_id)

\* C15: field names are unique within a collection in every reachable state:
\* after any sequence of add_field, create_relation_field, rename_field,
\* soft-delete and restore no two Field rows of one collection share a name.
C15_FieldNamesUnique ==
    \A f \in PresentFields, g \in PresentFields :
        field_rows[f].name = field_rows[g].name => f = g

(***************************************************************************)
(* Claims about projected output and views (specifications SpecViews and   *)
(* SpecViewVersions).                                                      *)
(***************************************************************************)
\* Column names and field names of the Field rows with is_hidden.
HiddenColumns ==
    {field_rows[f].sql_column_name : f \in {g \in PresentFields : field_rows[g].is_hidden}}
    \cup {field_rows[f].name : f \in {g \in PresentFields : field_rows[g].is_hidden}}

\* C16: a hidden field is never included in any projected output: record
\* data of the record routes, rows returned by execute_view and default field
\* listings never contain a field whose is_hidden is true.
C16_HiddenNeverProjected ==
    view_result.outcome = "ok" => view_result.columns \cap HiddenColumns = {}

\* Columns the catalog knows: the sql_column_name of the live Field rows and
\* the system columns of every table.
CatalogColumns ==
    {field_rows[f].sql_column_name : f \in {g \in PresentFields : ~field_rows[g].is_deleted}}
    \cup {"id", "created_at", "updated_at", "created_by_user_id", "created_by_app_user_id"}

\* C17: every identifier that execute_view interpolates into the statement
\* (projection column, filter field, sort field) has passed validate_slug or
\* is a column of the collection's catalog.
C17_IdentifiersValidated ==
    view_result.op = "execute_view" =>
        \A identifier \in view_result.identifiers :
            validate_slug(identifier) \/ identifier \in CatalogColumns

\* C18: execute_view never returns more rows than min(requested_limit,
\* view.max_limit, 1000), whatever limit is requested in the body or through
\* a view parameter.
C18_RowsBounded ==
    (view_result.op = "execute_view" /\ view_result.outcome = "ok") =>
        /\ view_result.rows <= views[view_result.view_id].max_limit
        /\ view_result.rows <= MAX_ROWS
        /\ view_result.requested.given =>
              view_result.rows <= view_result.requested.value

\* The ViewVersion rows of one view with one version number.
VersionRows(versions, vid, k) ==
    {row \in versions : row.view_id = vid /\ row.version = k}

\* One step of the version history: an accepted update adds one to the
\* version and leaves the prior definition in the ViewVersion row of the prior
\* version; a refused update changes nothing; no ViewVersion row is changed
\* or removed; every version up to the current one has exactly one row.
VersionHistoryStep ==
    /\ view_versions \subseteq view_versions'
    /\ \A vid \in ViewIds :
          /\ (view_result'.op = "update_view" /\ view_result'.view_id = vid
              /\ view_result'.outcome = "ok") =>
                /\ views'[vid].version = views[vid].version + 1
                /\ VersionRows(view_versions', vid, views[vid].version) =
                      {ViewVersion(vid, views[vid])}
                /\ VersionRows(view_versions', vid, views'[vid].version) =
                      {ViewVersion(vid, views'[vid])}
          /\ (views[vid].present /\ views'[vid].version # views[vid].version) =>
                (view_result'.op = "update_view" /\ view_result'.outcome = "ok")
          /\ views'[vid].present =>
                \A k \in 1..views'[vid].version :
                    Cardinality(VersionRows(view_versions', vid, k)) = 1
    /\ (view_result'.op = "update_view" /\ view_result'.outcome # "ok") =>
          (views' = views /\ view_versions' = view_versions)

C20_AtMostOneDefaultRole == Cardinality(DefaultRoles) <= 1

\* The record key an owner or field_equals node reads.
ReferencedField(condition) ==
    IF condition.type = "owner" /\ condition.field = None
    THEN "created_by_app_user_id" ELSE condition.field

\* There is no record, or the record has no such key.
FieldMissing(condition, record) ==
    record.is_none \/ ReferencedField(condition) \notin RecordKeys

\* C23: an owner or field_equals node whose field is missing from the
\* record, or that is evaluated without a record, evaluates to false, for
\* every comparison value (also an absent or null value and a principal
\* reference that resolves to nothing).
C23_MissingFieldIsFalse ==
    (/\ evaluation.evaluated
     /\ evaluation.condition.type \in {"owner", "field_equals"}
     /\ FieldMissing(evaluation.condition, evaluation.record))
        => ~evaluation.result

\* C30: a condition node whose type is none of the recognised kinds, the
\* node without a type included, evaluates to true (so that a "not" node
\* lacking its sub-condition evaluates to false), and a policy carrying such
\* a node is applied exactly as the same policy without a condition.
C30_UnknownConditionIsTrue ==
    /\ (evaluation.evaluated /\ evaluation.condition.type \notin ConditionKinds)
          => /\ evaluation.result
             /\ evaluation.applies =
                   PolicyMatches(PolicyCarrying(NoCondition), "read",
                                 evaluation.principal, evaluation.record)
    /\ (/\ evaluation.evaluated
        /\ evaluation.condition.type = "not"
        /\ evaluation.condition.conditions = <<>>)
          => ~evaluation.result

\* A node of the unknown kind "custom" was evaluated to true for an app user
\* and the policy carrying it was applied.
C30_Witness ==
    /\ evaluation.evaluated
    /\ evaluation.condition.type = "custom"
    /\ evaluation.principal.type = "app_user"
    /\ evaluation.result
    /\ evaluation.applies

(***************************************************************************)
(* Claims about roles in policies (specification SpecRoleGate).            *)
(***************************************************************************)
\* The role names GET /users/{user_id}/roles reports for the app user.
AssignedRoleNames(uid) == get_user_roles(BoundStr(uid)).names

RoleGated(policy) == policy.row.allowed_roles # <<>>

RequiredRoles(policy) == SeqRange(ParseCsv(policy.row.allowed_roles))

\* The checked app user holds a role that the policy lists.
HoldsListedRole(policy) ==
    RequiredRoles(policy) \cap AssignedRoleNames(decision.principal.app_user) # {}

NotRoleGated(policy) == ~RoleGated(policy)

\* C24: a policy with allowed_roles matches an app_user only if the roles
\* assigned to that app user intersect allowed_roles; an app user holding
\* none of the listed roles is neither granted nor denied by such a policy
\* (the check returns what the collection's other policies give); and
\* allowed_roles does not restrict principals that are not app users.
C24_RoleGate ==
    decision.checked =>
        /\ \A policy \in ActivePolicies(decision.collection) :
              (/\ RoleGated(policy)
               /\ decision.principal.type = "app_user"
               /\ PassesGate(policy)) => HoldsListedRole(policy)
        /\ (/\ decision.principal.type = "app_user"
            /\ \A policy \in ActivePolicies(decision.collection) :
                  RoleGated(policy) => ~HoldsListedRole(policy))
              => /\ ~decision.raised
                 /\ \E plist \in list_policies(decision.collection) :
                       decision.allowed =
                          IF plist = <<>> THEN FALSE
                          ELSE ScanPolicies(SelectSeq(plist, NotRoleGated),
                                            decision.action, decision.principal,
                                            decision.record)
        /\ decision.principal.type # "app_user"
              => /\ ~decision.raised
                 /\ \A policy \in ActivePolicies(decision.collection) :
                       PassesGate(policy) =
                          PolicyMatches([policy.row EXCEPT !.allowed_roles = <<>>],
                                        decision.action, decision.principal,
                                        decision.record)

(***************************************************************************)
(* Claims about records (specification SpecRecords).                       *)
(***************************************************************************)
\* The last request read one existing record on behalf of an app user while
\* the owner policy was the collection's only policy.
OwnerScenarioRead ==
    /\ record_result.route = "get"
    /\ record_result.status # 404
    /\ record_result.principal.type = "app_user"
    /\ record_result.checked_against = {Policy(1, TRUE, OwnerReadPolicy)}

ListServed ==
    record_result.route = "list" /\ record_result.status \notin {401, 403}

\* C25: a list request whose filter names a field that is neither a catalog
\* field of the collection nor a system column is answered 400; the query
\* never runs without the filter.
C25_UnknownFilterFieldRejected ==
    (ListServed /\ HasUnknownFilterField(record_result.request.query_params))
        => record_result.status = 400

PriceBetween100And500 ==
    <<Param(<<"price", "gte">>, "100"), Param(<<"price", "lte">>, "500")>>

\* C26: the total of a list response counts the rows the page was taken
\* from: a page never holds more rows than the total, and a page that is
\* not full holds exactly total rows; with price__gte=100 and price__lte=500
\* the page holds exactly the rows priced 100..500 and the total is their
\* number.
C26_CountMatchesList ==
    (record_result.route = "list" /\ record_result.status = 200) =>
        /\ Len(record_result.records) <= record_result.total
        /\ Len(record_result.records) < record_result.request.limit
              => record_result.total = Len(record_result.records)
        /\ (/\ record_result.request.query_params = PriceBetween100And500
            /\ record_result.principal.type = "api_key")
              => /\ {record_result.records[i].id : i \in DOMAIN record_result.records}
                      = {records[i].id : i \in {j \in DOMAIN records :
                            records[j].price >= 100 /\ records[j].price <= 500}}
                 /\ record_result.total
                      = Cardinality({j \in DOMAIN records :
                            records[j].price >= 100 /\ records[j].price <= 500})

\* Over the prices 50, 300 and 600 the filter returned the 300 row alone and
\* a total of 1.
C26_Witness ==
    /\ record_result.route = "list"
    /\ record_result.status = 200
    /\ record_result.request.query_params = PriceBetween100And500
    /\ {records[i].price : i \in DOMAIN records} = {50, 300, 600}
    /\ Len(record_result.records) = 1
    /\ record_result.records[1].price = 300
    /\ record_result.total = 1

C27_SystemCollectionNotRenamed ==
    [][\A c \in Cids :
          (collections[c].present /\ collections[c].is_system)
             => /\ collections'[c].present
                /\ collections'[c].name = collections[c].name
                /\ collections'[c].sql_table_name = collections[c].sql_table_name]_vars

(***************************************************************************)
(* Claims about identifiers (specification Spec).                          *)
(***************************************************************************)
\* The name matches ^[a-z][a-z0-9_]{0,62}$ and is not a reserved word.
SlugValid(name) == SlugPatternMatches(name) /\ name \notin RESERVED_WORDS

\* C28: validate_slug accepts exactly the names that match the slug pattern
\* and are not reserved: a rename whose target is not such a name ends at
\* the check, before any lock, DDL, alias or SchemaOp, and changes nothing;
\* a rename whose target is such a name goes on to the lock.
C28_InvalidRenameRejectedFirst ==
    /\ [](\A s \in Sessions :
            pc[s] \in {"rename_locked", "rename_ddl_done", "rename_finally"}
               => SlugValid(req[s].new_name))
    /\ [][\A s \in Sessions :
            (pc[s] = "rename_start" /\ pc'[s] # "rename_start") =>
                IF SlugValid(req[s].new_name)
                THEN pc'[s] \in {"rename_locked", "idle"}
                ELSE /\ pc'[s] = "idle"
                     /\ UNCHANGED <<advisory, tables, columns, aliases,
                                    schema_ops, collections>>]_vars

\* A rename to the reserved word "select", which matches the pattern, has
\* reached the service while the other session is past the check with a
\* valid name.
C28_Witness ==
    \E s, t \in Sessions :
        /\ pc[s] = "rename_start"
        /\ req[s].new_name = "select"
        /\ pc[t] = "rename_locked"

(***************************************************************************)
(* Claims about the SchemaOp ledger (specification Spec).                  *)
(***************************************************************************)
\* A create_table or rename_table entry of the ledger gives the table its
\* name.
LedgerNamesTable(table) ==
    \E i \in DOMAIN schema_ops :
        /\ schema_ops[i].op_type \in {"create_table", "rename_table"}
        /\ schema_ops[i].new_name = table

\* An add_column entry of the ledger names the column.
LedgerNamesColumn(column) ==
    \E i \in DOMAIN schema_ops :
        /\ schema_ops[i].op_type = "add_column"
        /\ schema_ops[i].new_name = column

\* C21: the SchemaOp ledger is append-only (no step changes or removes an
\* entry), every applied DDL has its entry (once no request is running,
\* every physical table and column is named by an entry of the matching
\* op_type), and a rejected or failed request appends none (a step that
\* leaves tables and columns as they were and ends a request adds no
\* rename_table or add_column entry).
C21_LedgerAppendOnlyAndComplete ==
    /\ [][/\ Len(schema_ops') >= Len(schema_ops)
          /\ SubSeq(schema_ops', 1, Len(schema_ops)) = schema_ops]_vars
    /\ []((\A s \in Sessions : pc[s] = "idle") =>
              /\ \A table \in tables : LedgerNamesTable(table)
              /\ \A table \in tables : \A column \in columns[table] :
                    LedgerNamesColumn(column))
    /\ [][(\E s \in Sessions :
              /\ pc[s] \in {"rename_start", "rename_locked", "add_start"}
              /\ pc'[s] \in {"idle", "rename_finally"})
            => schema_ops' = schema_ops]_vars
====
